---- MODULE Spec2Model ----
(***************************************************************************)
(* Customer-service chatbot backend (Google Apps Script):                  *)
(* main.gs, menuService.gs, configService.gs, loggingService.gs,           *)
(* sheetsService.gs, aiService.gs, ChatService, MercadoLibreService.       *)
(*                                                                         *)
(* Conventions of the model                                                *)
(*  - a JavaScript string is a sequence of one-character strings; a long   *)
(*    fixed text (a greeting, a canned message) is one opaque token;       *)
(*  - a JavaScript value read from a sheet cell or a config object is a    *)
(*    tagged record (Str, Num, Bool, Undef);                               *)
(*  - the clock `now` counts minutes since Sunday 00:00 local time;        *)
(*  - a function that can throw returns a record with a `raised` field.    *)
(***************************************************************************)
EXTENDS Integers, Sequences, FiniteSets, TLC

VARIABLES
    now,          \* wall clock, minutes since Sunday 00:00
    t0,           \* instant at which the observed run started
    settings,     \* rows of the Settings sheet below the header: <<key, value>>
    configCache,  \* ConfigService._configCache
    cacheExpiry,  \* ConfigService._cacheExpiry (0 stands for null)
    menu,         \* rows of the Menu_Config sheet below the header
    logs,         \* rows of the Chat_Logs sheet below the header (all its rows
                  \* while the header is missing)
    props,        \* Script Properties used by the backend
    loaded,       \* history: the last successful load of the settings table
    last,         \* the last operation: its inputs, environment and result
    served,       \* history: the number of requests served so far
    logsHeader,   \* whether row 1 of the Chat_Logs sheet holds the header
    purge         \* the position and locals of a running cleanupOldLogs

vars == <<now, t0, settings, configCache, cacheExpiry, menu, logs, props,
          loaded, last, served, logsHeader, purge>>

----------------------------------------------------------------------------
(* Bounds of the model *)

MaxElapsed == 5       \* minutes the clock may advance in a run of SpecConfig
MaxElapsedReq == 1    \* minutes the clock may advance in a run of Spec
MaxRequests == 1      \* requests served in a run of Spec
MaxSettingsRows == 11 \* rows the Settings sheet may grow to

----------------------------------------------------------------------------
(* JavaScript values *)

Str(s) == [t |-> "str", s |-> s]
Num(n) == [t |-> "num", n |-> n]
Bool(b) == [t |-> "bool", b |-> b]
Undef == [t |-> "undef"]

\* the JavaScript value NaN, as a number no clock value or time of day equals
NaN == -1

Digits == <<"0", "1", "2", "3", "4", "5", "6", "7", "8", "9">>

IsDigit(c) == \E i \in 1..10 : Digits[i] = c

DigitVal(c) == (CHOOSE i \in 1..10 : Digits[i] = c) - 1

\* JavaScript truthiness of a tagged value
Truthy(v) ==
    CASE v.t = "str" -> v.s # <<>>
      [] v.t = "num" -> v.n # 0 /\ v.n # NaN
      [] v.t = "bool" -> v.b
      [] OTHER -> FALSE

\* a || b
OrElse(a, b) == IF Truthy(a) THEN a ELSE b

\* Number.prototype.toString for a natural number
RECURSIVE NatToString(_)
NatToString(n) ==
    IF n < 10 THEN <<Digits[n + 1]>>
    ELSE NatToString(n \div 10) \o <<Digits[(n % 10) + 1]>>

\* Number(s) for a string of the model: the empty string is 0, a run of
\* decimal digits is its value, anything else is NaN
RECURSIVE DigitsValue(_)
DigitsValue(s) ==
    IF s = <<>> THEN 0
    ELSE DigitsValue(SubSeq(s, 1, Len(s) - 1)) * 10 + DigitVal(s[Len(s)])

ToNumber(s) ==
    IF \A i \in 1..Len(s) : IsDigit(s[i]) THEN DigitsValue(s) ELSE NaN

\* parseFloat(s): NaN for the empty string, otherwise as Number(s) on the
\* strings of the model
ParseFloat(s) == IF s = <<>> THEN NaN ELSE ToNumber(s)

\* letters; an accented vowel is written with a trailing slash ("u/")
UpperLetters == <<"A", "B", "C", "D", "E", "F", "G", "H", "I", "J", "K", "L", "M",
                  "N", "O", "P", "Q", "R", "S", "T", "U", "V", "W", "X", "Y", "Z",
                  "A/", "E/", "I/", "O/", "U/">>
LowerLetters == <<"a", "b", "c", "d", "e", "f", "g", "h", "i", "j", "k", "l", "m",
                  "n", "o", "p", "q", "r", "s", "t", "u", "v", "w", "x", "y", "z",
                  "a/", "e/", "i/", "o/", "u/">>

LowerChar(c) ==
    IF \E i \in 1..Len(UpperLetters) : UpperLetters[i] = c
    THEN LowerLetters[CHOOSE i \in 1..Len(UpperLetters) : UpperLetters[i] = c]
    ELSE c

\* \w of a JavaScript regular expression: ASCII letters, digits, underscore
IsWordChar(c) ==
    \/ IsDigit(c)
    \/ c = "_"
    \/ \E i \in 1..26 : UpperLetters[i] = c \/ LowerLetters[i] = c

\* String.prototype.toLowerCase
ToLowerCase(s) == [i \in 1..Len(s) |-> LowerChar(s[i])]

\* String.prototype.split(sep) for a one-character separator
RECURSIVE Split(_, _)
Split(s, sep) ==
    IF \A i \in 1..Len(s) : s[i] # sep THEN <<s>>
    ELSE LET i == CHOOSE j \in 1..Len(s) :
                      s[j] = sep /\ \A k \in 1..(j - 1) : s[k] # sep
         IN <<SubSeq(s, 1, i - 1)>> \o Split(SubSeq(s, i + 1, Len(s)), sep)

\* String.prototype.trim
RECURSIVE Trim(_)
Trim(s) ==
    IF s = <<>> THEN s
    ELSE IF s[1] = " " THEN Trim(Tail(s))
    ELSE IF s[Len(s)] = " " THEN Trim(SubSeq(s, 1, Len(s) - 1))
    ELSE s

\* template-literal rendering `${v}` of a tagged value
Render(v) ==
    CASE v.t = "str" -> v.s
      [] v.t = "num" -> NatToString(v.n)
      [] v.t = "bool" -> IF v.b THEN <<"t", "r", "u", "e">>
                                ELSE <<"f", "a", "l", "s", "e">>
      [] OTHER -> <<"undefined">>

----------------------------------------------------------------------------
(* Texts of the program *)

T0900 == <<"0", "9", ":", "0", "0">>
T1800 == <<"1", "8", ":", "0", "0">>
MonToFri == <<"M", "o", "n", ",", "T", "u", "e", ",", "W", "e", "d", ",",
              "T", "h", "u", ",", "F", "r", "i">>
GreetingBusinessHours == <<"Hola! Bienvenido a nuestro servicio">>
GreetingAfterHours == <<"Hola. Actualmente estamos fuera del horario">>
FooterMessage == <<"Escribe el numero de la opcion">>
Gemini == <<"gemini">>
Claude == <<"claude">>

\* CONFIG.SHEETS
MENU_SHEET == "Menu_Config"
LOGS_SHEET == "Chat_Logs"
SETTINGS_SHEET == "Settings"

----------------------------------------------------------------------------
(* SheetsService.setupSettingsSheet: the rows written below the header *)

setupSettingsSheet ==
    << <<"business_hours_start", Str(T0900)>>,
       <<"business_hours_end", Str(T1800)>>,
       <<"business_days", Str(MonToFri)>>,
       <<"greeting_business_hours", Str(GreetingBusinessHours)>>,
       <<"greeting_after_hours", Str(GreetingAfterHours)>>,
       <<"footer_message", Str(FooterMessage)>>,
       <<"max_ai_tokens", Str(<<"5", "0", "0">>)>>,
       <<"default_ai_provider", Str(Gemini)>>,
       <<"escalation_timeout", Str(<<"3", "0", "0">>)>>,
       <<"session_timeout", Str(<<"1", "8", "0", "0">>)>> >>

----------------------------------------------------------------------------
(* ConfigService *)

\* ConfigService._cacheTimeout, in minutes
cacheTimeout == 5

NoCache == [isNull |-> TRUE]
Cached(cfg) == [isNull |-> FALSE, cfg |-> cfg]

\* config[key] of a config object (a function on the keys it holds)
Lookup(cfg, key) == IF key \in DOMAIN cfg THEN cfg[key] ELSE Undef

parseConfigValue(value) ==
    IF value.t = "str"
    THEN IF ToNumber(value.s) # NaN /\ ParseFloat(value.s) # NaN
         THEN Num(ParseFloat(value.s))
         ELSE IF ToLowerCase(value.s) = <<"t", "r", "u", "e">> THEN Bool(TRUE)
         ELSE IF ToLowerCase(value.s) = <<"f", "a", "l", "s", "e">> THEN Bool(FALSE)
         ELSE value
    ELSE value

\* the loop of getConfig over the data rows: a later row of a key overwrites
\* an earlier one, rows with an empty key are skipped
ConfigOfRows(rows) ==
    LET keys == {rows[i][1] : i \in 1..Len(rows)} \ {""}
        lastRow(k) == CHOOSE i \in 1..Len(rows) :
                          rows[i][1] = k /\ \A j \in (i + 1)..Len(rows) : rows[j][1] # k
    IN [k \in keys |-> parseConfigValue(rows[lastRow(k)][2])]

getDefaultConfig ==
    [business_hours_start |-> Str(T0900),
     business_hours_end |-> Str(T1800),
     business_days |-> Str(MonToFri),
     greeting_business_hours |-> Str(GreetingBusinessHours),
     greeting_after_hours |-> Str(GreetingAfterHours),
     footer_message |-> Str(FooterMessage),
     max_ai_tokens |-> Num(500),
     default_ai_provider |-> Str(Gemini),
     escalation_timeout |-> Num(300),
     session_timeout |-> Num(1800)]

\* a variant of getConfig that still serves the cache at the instant of its
\* expiry (<= for <)
getConfigServingAtExpiry(cache, expiry, rows, clock, sheetOk) ==
    IF ~cache.isNull /\ expiry # 0 /\ clock <= expiry
    THEN [config |-> cache.cfg, cache |-> cache, expiry |-> expiry, read |-> FALSE]
    ELSE IF sheetOk
    THEN LET config == ConfigOfRows(rows)
         IN [config |-> config, cache |-> Cached(config),
             expiry |-> clock + cacheTimeout, read |-> TRUE]
    ELSE [config |-> getDefaultConfig, cache |-> cache, expiry |-> expiry,
          read |-> TRUE]

\* a variant of getConfig that answers a failed read from the expired cache
\* when there is one
getConfigStaleOnFailure(cache, expiry, rows, clock, sheetOk) ==
    IF ~cache.isNull /\ expiry # 0 /\ clock < expiry
    THEN [config |-> cache.cfg, cache |-> cache, expiry |-> expiry, read |-> FALSE]
    ELSE IF sheetOk
    THEN LET config == ConfigOfRows(rows)
         IN [config |-> config, cache |-> Cached(config),
             expiry |-> clock + cacheTimeout, read |-> TRUE]
    ELSE [config |-> IF cache.isNull THEN getDefaultConfig ELSE cache.cfg,
          cache |-> cache, expiry |-> expiry, read |-> TRUE]

\* getConfig: the config object returned and the cache fields afterwards.
\* sheetOk tells whether SheetsService.getSheet(Settings) and the read work.
getConfig(cache, expiry, rows, clock, sheetOk) ==
    IF ~cache.isNull /\ expiry # 0 /\ clock < expiry
    THEN [config |-> cache.cfg, cache |-> cache, expiry |-> expiry, read |-> FALSE]
    ELSE IF sheetOk
    THEN LET config == ConfigOfRows(rows)
         IN [config |-> config, cache |-> Cached(config),
             expiry |-> clock + cacheTimeout, read |-> TRUE]
    ELSE [config |-> getDefaultConfig, cache |-> cache, expiry |-> expiry,
          read |-> TRUE]

\* ConfigService.get
get(cache, expiry, rows, clock, sheetOk, key, defaultValue) ==
    LET r == getConfig(cache, expiry, rows, clock, sheetOk)
        v == Lookup(r.config, key)
    IN [value |-> IF v # Undef THEN v ELSE defaultValue,
        cache |-> r.cache, expiry |-> r.expiry, read |-> r.read]

\* ConfigService.set: the rows of the sheet and the cache fields afterwards
set(cache, expiry, rows, sheetOk, key, value) ==
    IF ~sheetOk
    THEN [rows |-> rows, cache |-> cache, expiry |-> expiry]
    ELSE LET hits == {i \in 1..Len(rows) : rows[i][1] = key}
         IN [rows |-> IF hits # {}
                      THEN LET rowIndex == CHOOSE i \in hits : \A j \in hits : i <= j
                           IN [rows EXCEPT ![rowIndex] = <<key, value>>]
                      ELSE Append(rows, <<key, value>>),
             cache |-> NoCache, expiry |-> 0]

\* the daysMap literal of getBusinessHours; -1 stands for undefined
daysMap(name) ==
    CASE name = <<"S", "u", "n">> -> 0
      [] name = <<"M", "o", "n">> -> 1
      [] name = <<"T", "u", "e">> -> 2
      [] name = <<"W", "e", "d">> -> 3
      [] name = <<"T", "h", "u">> -> 4
      [] name = <<"F", "r", "i">> -> 5
      [] name = <<"S", "a", "t">> -> 6
      [] OTHER -> -1

getDefaultBusinessHours ==
    [schedule |-> [d \in 0..6 |->
                      IF d \in 1..5
                      THEN [open |-> TRUE, start |-> Str(T0900), end |-> Str(T1800)]
                      ELSE [open |-> FALSE, start |-> Undef, end |-> Undef]],
     display |-> <<"09:00 - 18:00, Mon-Fri">>]

\* the body of getBusinessHours for a config object
BusinessHoursOf(config) ==
    LET startTime == OrElse(Lookup(config, "business_hours_start"), Str(T0900))
        endTime == OrElse(Lookup(config, "business_hours_end"), Str(T1800))
        businessDays == OrElse(Lookup(config, "business_days"), Str(MonToFri))
    IN IF businessDays.t # "str"
       THEN getDefaultBusinessHours      \* businessDays.split is not a function
       ELSE LET parts == Split(businessDays.s, ",")
                activeDays == {daysMap(Trim(parts[i])) : i \in 1..Len(parts)}
            IN [schedule |-> [d \in 0..6 |->
                                 [open |-> d \in activeDays,
                                  start |-> startTime, end |-> endTime]],
                display |-> Render(startTime) \o <<" - ">> \o Render(endTime)
                            \o <<", ">> \o businessDays.s]

\* ConfigService.getBusinessHours
getBusinessHours(cache, expiry, rows, clock, sheetOk) ==
    LET r == getConfig(cache, expiry, rows, clock, sheetOk)
    IN [value |-> BusinessHoursOf(r.config),
        cache |-> r.cache, expiry |-> r.expiry, read |-> r.read]

\* ConfigService.getGreetings
getGreetings(cache, expiry, rows, clock, sheetOk) ==
    LET r == getConfig(cache, expiry, rows, clock, sheetOk)
    IN [value |-> [businessHours |-> OrElse(Lookup(r.config, "greeting_business_hours"),
                                            Str(GreetingBusinessHours)),
                   afterHours |-> OrElse(Lookup(r.config, "greeting_after_hours"),
                                         Str(GreetingAfterHours))],
        cache |-> r.cache, expiry |-> r.expiry, read |-> r.read]

\* ConfigService.getFooterMessage
getFooterMessage(cache, expiry, rows, clock, sheetOk) ==
    LET r == getConfig(cache, expiry, rows, clock, sheetOk)
    IN [value |-> OrElse(Lookup(r.config, "footer_message"), Str(FooterMessage)),
        cache |-> r.cache, expiry |-> r.expiry, read |-> r.read]

\* ConfigService.getAIConfig
getAIConfig(cache, expiry, rows, clock, sheetOk) ==
    LET r == getConfig(cache, expiry, rows, clock, sheetOk)
    IN [value |-> [defaultProvider |-> OrElse(Lookup(r.config, "default_ai_provider"),
                                              Str(Gemini)),
                   maxTokens |-> OrElse(Lookup(r.config, "max_ai_tokens"), Num(500)),
                   timeout |-> OrElse(Lookup(r.config, "ai_timeout"), Num(30000))],
        cache |-> r.cache, expiry |-> r.expiry, read |-> r.read]

----------------------------------------------------------------------------
(* MenuService: business hours *)

MinutesPerDay == 1440

\* Date.getDay, and getHours() * 60 + getMinutes(), of a clock value
getDay(clock) == (clock \div MinutesPerDay) % 7
MinutesOfDay(clock) == clock % MinutesPerDay

\* MenuService.parseTime: hours * 60 + minutes of the first two parts of
\* timeString.split(':'); NaN when a part is missing or not a number
parseTime(timeString) ==
    LET parts == Split(timeString, ":")
        hours == ToNumber(parts[1])
        minutes == IF Len(parts) >= 2 THEN ToNumber(parts[2]) ELSE NaN
    IN IF hours = NaN \/ minutes = NaN THEN NaN ELSE hours * 60 + minutes

\* a variant of isWithinBusinessHours that is closed at the closing minute
isWithinBusinessHoursClosedAtEnd(currentTime, businessHours) ==
    LET currentTimeMinutes == MinutesOfDay(currentTime)
        currentDay == getDay(currentTime)
    IN IF currentDay \notin DOMAIN businessHours.schedule THEN FALSE
       ELSE LET daySchedule == businessHours.schedule[currentDay] IN
       IF ~daySchedule.open THEN FALSE
       ELSE IF daySchedule.start.t # "str" \/ daySchedule.end.t # "str" THEN FALSE
       ELSE LET openTime == parseTime(daySchedule.start.s)
                closeTime == parseTime(daySchedule.end.s)
            IN /\ openTime # NaN
               /\ closeTime # NaN
               /\ currentTimeMinutes >= openTime
               /\ currentTimeMinutes < closeTime

\* MenuService.isWithinBusinessHours; a throw of parseTime (start or end is
\* not a string) is caught and answered false
isWithinBusinessHours(currentTime, businessHours) ==
    LET currentTimeMinutes == MinutesOfDay(currentTime)
        currentDay == getDay(currentTime)
    IN IF currentDay \notin DOMAIN businessHours.schedule THEN FALSE
       ELSE LET daySchedule == businessHours.schedule[currentDay] IN
       IF ~daySchedule.open THEN FALSE
       ELSE IF daySchedule.start.t # "str" \/ daySchedule.end.t # "str" THEN FALSE
       ELSE LET openTime == parseTime(daySchedule.start.s)
                closeTime == parseTime(daySchedule.end.s)
            IN /\ openTime # NaN
               /\ closeTime # NaN
               /\ currentTimeMinutes >= openTime
               /\ currentTimeMinutes <= closeTime

----------------------------------------------------------------------------
(* Strings and objects handed between the services *)

\* the JavaScript value undefined (or null) where a string is expected
JsUndefined == <<"(undefined)">>

\* truthiness of a string-or-undefined
NonEmpty(s) == s # <<>> /\ s # JsUndefined

\* a || b on strings
OrStr(a, b) == IF NonEmpty(a) THEN a ELSE b

\* the object {} and the value null where an object is expected
EmptyObject == [emptyObject |-> TRUE]
JsNull == [jsNull |-> TRUE]

\* obj.f of an object literal; undefined when the object has no such key
Field(obj, f) == IF f \in DOMAIN obj THEN obj[f] ELSE JsUndefined

\* String.prototype.includes
Includes(s, part) ==
    \E i \in 1..(Len(s) - Len(part) + 1) : SubSeq(s, i, i + Len(part) - 1) = part

----------------------------------------------------------------------------
(* Script Properties *)

\* the properties after setupCredentials and before the first request; an
\* empty string stands for a property that is not set, and sessions lists
\* the SESSION_<id> properties as pairs of key and stored context
InitialProps(geminiKey) ==
    [SYSTEM_INITIALIZED |-> FALSE,
     GEMINI_API_KEY |-> geminiKey,
     CLAUDE_API_KEY |-> <<>>,
     ML_CLIENT_ID |-> <<"client">>,
     ML_CLIENT_SECRET |-> <<"secret">>,
     ML_ACCESS_TOKEN |-> <<"token0">>,
     ML_REFRESH_TOKEN |-> <<"refresh0">>,
     ML_ACCESS_TOKEN_FECHA_EXPIRA |-> 0,
     sessions |-> <<>>]

\* the key suffix of `SESSION_${sessionId}`
SessionKey(sessionId) ==
    IF sessionId = JsUndefined
    THEN <<"u", "n", "d", "e", "f", "i", "n", "e", "d">>
    ELSE sessionId

----------------------------------------------------------------------------
(* LoggingService and SheetsService.appendData *)

\* no cleanupOldLogs is running
NoPurge == [pc |-> "idle"]

\* the length sanitizeMessage cuts a text to
MaxLoggedLength == 500

\* the texts the masks put in place of a match, and the redaction marker
CardMask == <<"[", "C", "A", "R", "D", "_", "N", "U", "M", "B", "E", "R", "]">>
EmailMask == <<"[", "E", "M", "A", "I", "L", "]">>
PhoneMask == <<"[", "P", "H", "O", "N", "E", "]">>
Redacted == <<"[REDACTED]">>

\* [A-Za-z]
IsLetter(c) == \E i \in 1..26 : UpperLetters[i] = c \/ LowerLetters[i] = c

\* the character classes of the e-mail pattern: [A-Za-z0-9._%+-],
\* [A-Za-z0-9.-] and [A-Z|a-z]
InClass(class, c) ==
    \/ IsLetter(c)
    \/ class # "tld" /\ IsDigit(c)
    \/ c \in (CASE class = "local" -> {".", "_", "%", "+", "-"}
                [] class = "domain" -> {".", "-"}
                [] OTHER -> {"|"})

\* \b between the characters at i - 1 and i
WordBoundary(s, i) ==
    (i - 1 \in 1..Len(s) /\ IsWordChar(s[i - 1])) # (i \in 1..Len(s) /\ IsWordChar(s[i]))

\* the last index of the longest run of characters of a class that starts
\* at i; i - 1 when there is none
RunEnd(s, i, class) ==
    CHOOSE end \in
        {IF stops = {} THEN Len(s)
         ELSE (CHOOSE k \in stops : \A j \in stops : k <= j) - 1 :
            stops \in {{k \in i..Len(s) : ~InClass(class, s[k])}}} : TRUE

\* groups of digits, \d{n} one after the other with an optional separator
\* ([\s-]? or [-.]?) between two groups, matched from position i: the index
\* of the last digit, 0 when there is no match. Of the white space \s the
\* texts of the runs hold the blank only
RECURSIVE DigitGroupsEnd(_, _, _, _)
DigitGroupsEnd(s, i, groups, separators) ==
    IF \/ i + Head(groups) - 1 > Len(s)
       \/ \E k \in i..(i + Head(groups) - 1) : ~IsDigit(s[k])
    THEN 0
    ELSE IF Len(groups) = 1 THEN i + Head(groups) - 1
    ELSE IF i + Head(groups) <= Len(s) /\ s[i + Head(groups)] \in separators
    THEN DigitGroupsEnd(s, i + Head(groups) + 1, Tail(groups), separators)
    ELSE DigitGroupsEnd(s, i + Head(groups), Tail(groups), separators)

\* a match of \b ... \b around groups of digits
BoundedDigitsEnd(s, i, groups, separators) ==
    LET bounded(e) == IF e > 0 /\ WordBoundary(s, e + 1) THEN e ELSE 0
    IN IF WordBoundary(s, i)
       THEN bounded(DigitGroupsEnd(s, i, groups, separators))
       ELSE 0

\* of the pairs of a dot and an end the one with the last dot and, for that
\* dot, the last end: the end, 0 when there is no pair
LastEnd(parts) ==
    IF parts = {} THEN 0
    ELSE (CHOOSE part \in parts :
              \A other \in parts :
                  \/ part[1] > other[1]
                  \/ part[1] = other[1] /\ part[2] >= other[2])[2]

\* a match of \b[A-Za-z0-9._%+-]+@[A-Za-z0-9.-]+\.[A-Z|a-z]{2,}\b from
\* position i: the local part is the run up to the @; the dot is the last
\* one of the domain run that a top-level part of two or more characters
\* ending at a word boundary follows, and that part is the longest such
EmailEnd(s, i) ==
    IF ~WordBoundary(s, i) THEN 0
    ELSE CHOOSE end \in
             {IF at > i /\ at <= Len(s) /\ s[at] = "@"
              THEN CHOOSE e \in
                       {LastEnd(parts) :
                           parts \in
                               {{part \in ((at + 2)..RunEnd(s, at + 1, "domain"))
                                              \X ((at + 4)..Len(s)) :
                                    /\ s[part[1]] = "."
                                    /\ part[2] >= part[1] + 2
                                    /\ part[2] <= RunEnd(s, part[1] + 1, "tld")
                                    /\ WordBoundary(s, part[2] + 1)}}} : TRUE
              ELSE 0 :
                 at \in {RunEnd(s, i, "local") + 1}} : TRUE

\* the end of the match of a pattern that starts at position i, 0 when the
\* pattern does not match there
MatchEnd(pattern, s, i) ==
    IF pattern = "email" THEN EmailEnd(s, i)
    ELSE BoundedDigitsEnd(s, i,
             IF pattern = "card" THEN <<4, 4, 4, 4>> ELSE <<3, 3, 4>>,
             IF pattern = "card" THEN {" ", "-"} ELSE {"-", "."})

\* the leftmost match of a pattern at or behind position `from`: where it
\* starts and where it ends, <<0, 0>> when there is none
FirstMatch(pattern, s, from) ==
    CHOOSE first \in
        {IF matches = {} THEN <<0, 0>>
         ELSE CHOOSE match \in matches : \A other \in matches : match[1] <= other[1] :
            matches \in {{match \in {<<i, MatchEnd(pattern, s, i)>> : i \in from..Len(s)} :
                             match[2] > 0}}} : TRUE

\* String.prototype.replace(/pattern/g, replacement) on the text from
\* position `from` on: the leftmost match is replaced, the search goes on
\* behind it
RECURSIVE Replace(_, _, _, _)
Replace(s, pattern, replacement, from) ==
    CHOOSE result \in
        {IF match[1] = 0 THEN SubSeq(s, from, Len(s))
         ELSE SubSeq(s, from, match[1] - 1) \o replacement
                  \o Replace(s, pattern, replacement, match[2] + 1) :
            match \in {FirstMatch(pattern, s, from)}} : TRUE

\* the patterns of sanitizeMessage and their replacements, in their order
Masks == <<<<"card", CardMask>>, <<"email", EmailMask>>, <<"phone", PhoneMask>>>>

\* the chain of .replace calls and .substring(0, 500) at its end
RECURSIVE ReplaceEach(_, _)
ReplaceEach(s, masks) ==
    IF masks = <<>>
    THEN SubSeq(s, 1, IF Len(s) < MaxLoggedLength THEN Len(s) ELSE MaxLoggedLength)
    ELSE CHOOSE result \in
             {ReplaceEach(replaced, Tail(masks)) :
                 replaced \in {Replace(s, Head(masks)[1], Head(masks)[2], 1)}} : TRUE

\* LoggingService.sanitizeMessage: String(message || '') of a value that is
\* not a string, else the three masks one after the other and the cut to 500
\* characters
sanitizeMessage(message) ==
    CHOOSE result \in
        {IF text = JsUndefined THEN <<>> ELSE ReplaceEach(text, Masks) :
            text \in {message}} : TRUE

\* the names of the properties of the objects of the runs, as the texts that
\* key.toLowerCase() and includes() work on
KeyText ==
    [password |-> <<"p", "a", "s", "s", "w", "o", "r", "d">>,
     apiKey |-> <<"a", "p", "i", "K", "e", "y">>,
     APIKEY |-> <<"A", "P", "I", "K", "E", "Y">>,
     accessToken |-> <<"a", "c", "c", "e", "s", "s", "T", "o", "k", "e", "n">>,
     userName |-> <<"u", "s", "e", "r", "N", "a", "m", "e">>,
     clientSecret |-> <<"c", "l", "i", "e", "n", "t", "S", "e", "c", "r", "e", "t">>,
     credentialId |-> <<"c", "r", "e", "d", "e", "n", "t", "i", "a", "l", "I", "d">>,
     note |-> <<"n", "o", "t", "e">>,
     success |-> <<"s", "u", "c", "c", "e", "s", "s">>,
     timestamp |-> <<"t", "i", "m", "e", "s", "t", "a", "m", "p">>,
     businessHours |-> <<"b", "u", "s", "i", "n", "e", "s", "s", "H", "o", "u", "r", "s">>,
     greeting |-> <<"g", "r", "e", "e", "t", "i", "n", "g">>,
     options |-> <<"o", "p", "t", "i", "o", "n", "s">>,
     footer |-> <<"f", "o", "o", "t", "e", "r">>,
     type |-> <<"t", "y", "p", "e">>,
     title |-> <<"t", "i", "t", "l", "e">>,
     message |-> <<"m", "e", "s", "s", "a", "g", "e">>,
     showMenu |-> <<"s", "h", "o", "w", "M", "e", "n", "u">>,
     provider |-> <<"p", "r", "o", "v", "i", "d", "e", "r">>,
     selection |-> <<"s", "e", "l", "e", "c", "t", "i", "o", "n">>,
     option |-> <<"o", "p", "t", "i", "o", "n">>,
     userMessage |-> <<"u", "s", "e", "r", "M", "e", "s", "s", "a", "g", "e">>,
     responseType |-> <<"r", "e", "s", "p", "o", "n", "s", "e", "T", "y", "p", "e">>,
     botResponse |-> <<"b", "o", "t", "R", "e", "s", "p", "o", "n", "s", "e">>,
     sessionId |-> <<"s", "e", "s", "s", "i", "o", "n", "I", "d">>,
     action |-> <<"a", "c", "t", "i", "o", "n">>,
     userInput |-> <<"u", "s", "e", "r", "I", "n", "p", "u", "t">>,
     orderId |-> <<"o", "r", "d", "e", "r", "I", "d">>,
     error |-> <<"e", "r", "r", "o", "r">>,
     content |-> <<"c", "o", "n", "t", "e", "n", "t">>,
     responseTime |-> <<"r", "e", "s", "p", "o", "n", "s", "e", "T", "i", "m", "e">>,
     aiProvider |-> <<"a", "i", "P", "r", "o", "v", "i", "d", "e", "r">>,
     escalated |-> <<"e", "s", "c", "a", "l", "a", "t", "e", "d">>,
     status |-> <<"s", "t", "a", "t", "u", "s">>,
     userId |-> <<"u", "s", "e", "r", "I", "d">>,
     filters |-> <<"f", "i", "l", "t", "e", "r", "s">>]

\* the literal sensitiveFields of sanitizeMetadata
sensitiveFields ==
    {<<"p", "a", "s", "s", "w", "o", "r", "d">>,
     <<"t", "o", "k", "e", "n">>,
     <<"a", "p", "i", "K", "e", "y">>,
     <<"s", "e", "c", "r", "e", "t">>,
     <<"c", "r", "e", "d", "e", "n", "t", "i", "a", "l">>}

\* LoggingService.sanitizeMetadata: a copy of the object in which the value
\* of every key whose lower-cased name includes one of sensitiveFields is
\* the marker; the copy of null and of the empty object has no key
sanitizeMetadata(metadata) ==
    IF metadata \in {EmptyObject, JsNull} THEN EmptyObject
    ELSE [key \in DOMAIN metadata |->
             IF \E field \in sensitiveFields :
                    Includes(ToLowerCase(KeyText[key]), field)
             THEN Redacted
             ELSE metadata[key]]

\* SheetsService.appendData on Chat_Logs, inside the try/catch of a logging
\* a variant of AppendLog that writes the row over the last row of the sheet
AppendLogOverLastRow(st, env, row) ==
    IF env.logOk /\ env.propsOk
    THEN [st EXCEPT !.logs = IF @ = <<>> THEN <<row>> ELSE [@ EXCEPT ![Len(@)] = row]]
    ELSE st

\* function: the row is appended, or the throw is swallowed (the sheet cannot
\* be opened, or SPREADSHEET_ID cannot be read from the properties)
AppendLog(st, env, row) ==
    IF env.logOk /\ env.propsOk THEN [st EXCEPT !.logs = Append(@, row)] ELSE st

\* LoggingService.logInteraction; data is an object literal, env.elapsedMs
\* the milliseconds between the two readings of Date.now()
logInteraction(st, env, interactionType, sessionId, data) ==
    LET botResponse == IF "botResponse" \in DOMAIN data
                       THEN Field(data.botResponse, "message")
                       ELSE JsUndefined
        logEntry ==
            [timestamp |-> now,
             session |-> OrStr(sessionId, <<"anonymous">>),
             type |-> interactionType,
             user |-> sanitizeMessage(OrStr(Field(data, "userMessage"),
                                            OrStr(Field(data, "selection"), <<>>))),
             bot |-> sanitizeMessage(OrStr(Field(data, "message"),
                                           OrStr(botResponse, <<>>))),
             provider |-> OrStr(Field(data, "provider"),
                                OrStr(Field(data, "aiProvider"), <<>>)),
             responseTime |-> IF "responseTime" \in DOMAIN data /\ data.responseTime # 0
                              THEN data.responseTime ELSE env.elapsedMs,
             status |-> IF "success" \in DOMAIN data /\ data.success = FALSE
                        THEN "error" ELSE "success",
             metadata |-> sanitizeMetadata(data)]
    IN AppendLog(st, env, logEntry)

\* LoggingService.logError; context is an object literal, or null, whose
\* property read throws inside the try and is swallowed
logError(st, env, operation, errorMessage, context) ==
    IF context = JsNull THEN st
    ELSE AppendLog(st, env,
             [timestamp |-> now,
              session |-> OrStr(Field(context, "sessionId"), <<"system">>),
              type |-> "error",
              user |-> <<operation>>,
              bot |-> errorMessage,
              provider |-> <<>>,
              responseTime |-> 0,
              status |-> "error",
              metadata |-> [context |-> sanitizeMetadata(context),
                            operation |-> <<operation>>]])

\* LoggingService.logEscalation
logEscalation(st, env, sessionId, reason, status) ==
    AppendLog(st, env,
        [timestamp |-> now,
         session |-> sessionId,
         type |-> "escalation",
         user |-> sanitizeMessage(reason),
         bot |-> <<"Escalation status: ", status>>,
         provider |-> <<>>,
         responseTime |-> 0,
         status |-> status,
         metadata |-> [escalationReason |-> reason,
                       escalationStatus |-> status,
                       businessHours |-> status # "after_hours"]])

----------------------------------------------------------------------------
(* AIService *)

\* what UrlFetchApp.fetch and JSON.parse can yield for a completion call:
\* the fetch throws, the body does not parse, or a status code with the
\* provider's text field (JsUndefined when candidates, content or the field
\* itself is missing)
AIOutcomes ==
    {[kind |-> "throw"],
     [kind |-> "unparsable"],
     [kind |-> "resp", code |-> 200, text |-> <<"r", "e", "s", "p">>],
     [kind |-> "resp", code |-> 200, text |-> <<" ", "o", "k", " ">>],
     [kind |-> "resp", code |-> 200, text |-> <<" ", " ">>],
     [kind |-> "resp", code |-> 200, text |-> <<>>],
     [kind |-> "resp", code |-> 200, text |-> JsUndefined],
     [kind |-> "resp", code |-> 500, text |-> <<"r", "e", "s", "p">>],
     [kind |-> "resp", code |-> 500, text |-> JsUndefined]}

\* the hosts of the two completion endpoints
GeminiEndpoint == <<"generativelanguage.googleapis.com">>
ClaudeEndpoint == <<"api.anthropic.com">>

\* callGemini and callClaude after the provider is chosen: apiKey is the
\* stored key of that provider, endpoint the URL it posts to, outcome what
\* the HTTP call yields
callProvider(st, provider, endpoint, apiKey, outcome) ==
    IF ~NonEmpty(apiKey)
    THEN [st |-> st,
          value |-> [success |-> FALSE,
                     error |-> provider \o <<" API error: API key not configured">>,
                     provider |-> provider]]
    ELSE LET st1 == [st EXCEPT !.httpCalls = @ + 1, !.fetched = Append(@, endpoint)]
         IN IF /\ outcome.kind = "resp"
               /\ outcome.code = 200
               /\ NonEmpty(outcome.text)
            THEN [st |-> st1,
                  value |-> [success |-> TRUE, content |-> Trim(outcome.text),
                             provider |-> provider, timestamp |-> now]]
            ELSE [st |-> st1,
                  value |-> [success |-> FALSE,
                             error |-> provider \o <<" API error">>,
                             provider |-> provider]]

\* AIService.callGemini
callGemini(st, env) ==
    callProvider(st, Gemini, GeminiEndpoint, st.props.GEMINI_API_KEY, env.ai)

\* AIService.callClaude
callClaude(st, env) ==
    callProvider(st, Claude, ClaudeEndpoint, st.props.CLAUDE_API_KEY, env.ai)

\* generateResponse with a fallback: a provider without a key is replaced by
\* the other one
generateResponseFallingBack(st, env, provider) ==
    LET st1 == [st EXCEPT !.aiCalls = @ + 1]
    IN IF provider = Gemini
       THEN IF NonEmpty(st.props.GEMINI_API_KEY) THEN callGemini(st1, env)
            ELSE callClaude(st1, env)
       ELSE IF provider = Claude
       THEN IF NonEmpty(st.props.CLAUDE_API_KEY) THEN callClaude(st1, env)
            ELSE callGemini(st1, env)
       ELSE [st |-> st1,
             value |-> [success |-> FALSE,
                        error |-> <<"Unsupported AI provider: ">> \o provider,
                        provider |-> provider]]

\* AIService.generateResponse
generateResponse(st, env, provider) ==
    LET st1 == [st EXCEPT !.aiCalls = @ + 1]
    IN IF provider = Gemini THEN callGemini(st1, env)
       ELSE IF provider = Claude THEN callClaude(st1, env)
       ELSE [st |-> st1,
             value |-> [success |-> FALSE,
                        error |-> <<"Unsupported AI provider: ">> \o provider,
                        provider |-> provider]]

----------------------------------------------------------------------------
(* MercadoLibreService *)

\* the 5-minute buffer of getValidAccessToken, in minutes
bufferTime == 5

\* what the token endpoint can yield
RefreshOutcomes ==
    {[kind |-> "throw"],
     [kind |-> "resp", code |-> 400, access_token |-> <<>>,
      refresh_token |-> <<>>, expires_in |-> 0],
     [kind |-> "resp", code |-> 200, access_token |-> <<"token1">>,
      refresh_token |-> <<"refresh1">>, expires_in |-> 360],
     [kind |-> "resp", code |-> 200, access_token |-> <<"token1">>,
      refresh_token |-> <<>>, expires_in |-> 360],
     [kind |-> "resp", code |-> 200, access_token |-> <<>>,
      refresh_token |-> <<>>, expires_in |-> 0],
     [kind |-> "resp", code |-> 200, access_token |-> <<"token1">>,
      refresh_token |-> <<"refresh1">>, expires_in |-> NaN]}

\* what the orders and items endpoints can yield
FetchOutcomes ==
    {[kind |-> "throw"], [kind |-> "resp", code |-> 200],
     [kind |-> "resp", code |-> 404]}

\* a variant of refreshAccessToken that stores the new token and leaves the
\* stored expiry as it is
refreshAccessTokenKeepingExpiry(st, env) ==
    LET p == st.props
        failed(st1) == [st |-> logError(st1, env, "refreshAccessToken",
                                        <<"Token refresh failed">>, EmptyObject),
                        token |-> <<>>]
    IN IF ~(NonEmpty(p.ML_CLIENT_ID) /\ NonEmpty(p.ML_CLIENT_SECRET)
            /\ NonEmpty(p.ML_REFRESH_TOKEN))
       THEN failed(st)
       ELSE LET st1 == [st EXCEPT !.refreshCalls = @ + 1]
                o == env.mlRefresh
            IN IF o.kind = "resp" /\ o.code = 200 /\ NonEmpty(o.access_token)
                  /\ o.expires_in # NaN
               THEN [st |-> [st1 EXCEPT
                               !.props.ML_ACCESS_TOKEN = o.access_token,
                               !.props.ML_REFRESH_TOKEN =
                                   IF NonEmpty(o.refresh_token)
                                   THEN o.refresh_token ELSE @],
                     token |-> o.access_token]
               ELSE failed(st1)

\* MercadoLibreService.refreshAccessToken: the token, or <<>> for null. An
\* answer without expires_in makes the expiry an invalid date, whose
\* toISOString throws before anything is stored
refreshAccessToken(st, env) ==
    LET p == st.props
        failed(st1) == [st |-> logError(st1, env, "refreshAccessToken",
                                        <<"Token refresh failed">>, EmptyObject),
                        token |-> <<>>]
    IN IF ~(NonEmpty(p.ML_CLIENT_ID) /\ NonEmpty(p.ML_CLIENT_SECRET)
            /\ NonEmpty(p.ML_REFRESH_TOKEN))
       THEN failed(st)
       ELSE LET st1 == [st EXCEPT !.refreshCalls = @ + 1]
                o == env.mlRefresh
            IN IF o.kind = "resp" /\ o.code = 200 /\ NonEmpty(o.access_token)
                  /\ o.expires_in # NaN
               THEN [st |-> [st1 EXCEPT
                               !.props.ML_ACCESS_TOKEN = o.access_token,
                               !.props.ML_ACCESS_TOKEN_FECHA_EXPIRA = now + o.expires_in,
                               !.props.ML_REFRESH_TOKEN =
                                   IF NonEmpty(o.refresh_token)
                                   THEN o.refresh_token ELSE @],
                     token |-> o.access_token]
               ELSE failed(st1)

\* getValidAccessToken without the buffer: the stored token is used until
\* the stored expiry itself
getValidAccessTokenNoBuffer(st, env) ==
    LET currentToken == st.props.ML_ACCESS_TOKEN
        expirationDate == st.props.ML_ACCESS_TOKEN_FECHA_EXPIRA
    IN IF NonEmpty(currentToken) /\ expirationDate # 0
          /\ now < expirationDate
       THEN [st |-> st, token |-> currentToken]
       ELSE refreshAccessToken(st, env)

\* MercadoLibreService.getValidAccessToken
getValidAccessToken(st, env) ==
    LET currentToken == st.props.ML_ACCESS_TOKEN
        expirationDate == st.props.ML_ACCESS_TOKEN_FECHA_EXPIRA
    IN IF NonEmpty(currentToken) /\ expirationDate # 0
          /\ now < expirationDate - bufferTime
       THEN [st |-> st, token |-> currentToken]
       ELSE refreshAccessToken(st, env)

\* MercadoLibreService.getOrderDetails
getOrderDetails(st, env, orderId) ==
    LET failed(st1, msg) ==
            [st |-> logError(st1, env, "getOrderDetails", msg, [orderId |-> orderId]),
             value |-> [success |-> FALSE, error |-> msg]]
        fetched(st1) ==
            IF env.mlOrder.kind = "resp" /\ env.mlOrder.code = 200
            THEN [st |-> st1,
                  value |-> [success |-> TRUE,
                             data |-> [id |-> orderId, status |-> <<"paid">>],
                             timestamp |-> now]]
            ELSE failed(st1, <<"ML API error">>)
        withToken(t) ==
            IF ~NonEmpty(t.token)
            THEN failed(t.st, <<"No valid access token available">>)
            ELSE fetched([t.st EXCEPT !.orderCalls = @ + 1,
                                      !.orderToken = t.token])
    IN withToken(getValidAccessToken(st, env))

\* MercadoLibreService.getUserOrders
getUserOrders(st, env, userId, filters) ==
    LET failed(st1, msg) ==
            [st |-> logError(st1, env, "getUserOrders", msg,
                             [userId |-> userId, filters |-> filters]),
             value |-> [success |-> FALSE, error |-> msg]]
        fetched(st1) ==
            IF env.mlOrder.kind = "resp" /\ env.mlOrder.code = 200
            THEN [st |-> st1,
                  value |-> [success |-> TRUE,
                             data |-> [seller |-> userId, results |-> <<>>],
                             timestamp |-> now]]
            ELSE failed(st1, <<"ML API error">>)
        withToken(t) ==
            IF ~NonEmpty(t.token)
            THEN failed(t.st, <<"No valid access token available">>)
            ELSE fetched([t.st EXCEPT !.orderCalls = @ + 1,
                                      !.orderToken = t.token])
    IN withToken(getValidAccessToken(st, env))

\* MercadoLibreService.getProductInfo
getProductInfo(st, env, itemId) ==
    IF env.mlItem.kind = "resp" /\ env.mlItem.code = 200
    THEN [st |-> st,
          value |-> [success |-> TRUE,
                     data |-> [id |-> itemId, title |-> <<"item">>],
                     timestamp |-> now]]
    ELSE [st |-> st, value |-> [success |-> FALSE, error |-> <<"ML API error">>]]

----------------------------------------------------------------------------
(* MenuService *)

\* CONFIG.RESPONSE_TYPES
STATIC == <<"static">>
AI == <<"ai">>
ESCALATE == <<"escalate">>

MenuRow(number, title, responseType, response, aiProvider, aiContext, escalationMessage, afterHoursMessage, fallbackResponse, returnToMenu, active, maxTokens) ==
    [number |-> number, title |-> title, responseType |-> responseType,
     response |-> response, aiProvider |-> aiProvider, aiContext |-> aiContext,
     escalationMessage |-> escalationMessage,
     afterHoursMessage |-> afterHoursMessage,
     fallbackResponse |-> fallbackResponse, returnToMenu |-> returnToMenu,
     active |-> active, maxTokens |-> maxTokens]

\* SheetsService.setupMenuSheet: the sample rows written below the header
setupMenuSheet ==
    << MenuRow(Num(1), <<"Estado de mi pedido">>, AI, <<>>, Gemini,
               <<"Ayuda con consultas sobre pedidos">>, <<>>, <<>>,
               <<"Consulta el estado de tu pedido en tu cuenta">>,
               Bool(TRUE), Bool(TRUE), Num(300)),
       MenuRow(Num(2), <<"Informacion de productos">>, AI, <<>>, Gemini,
               <<"Proporciona informacion sobre productos">>, <<>>, <<>>,
               <<"Consulta nuestro catalogo en linea">>,
               Bool(TRUE), Bool(TRUE), Num(300)),
       MenuRow(Num(3), <<"Politica de devoluciones">>, STATIC,
               <<"Puedes devolver productos dentro de 30 dias">>, <<>>, <<>>,
               <<>>, <<>>, <<>>, Bool(TRUE), Bool(TRUE), Num(0)),
       MenuRow(Num(4), <<"Hablar con un agente">>, ESCALATE, <<>>, <<>>, <<>>,
               <<"Te conectamos con un agente humano">>,
               <<"Fuera del horario de atencion. Te contactaremos pronto.">>,
               <<>>, Bool(FALSE), Bool(TRUE), Num(0)),
       MenuRow(Num(0), <<"Salir">>, STATIC,
               <<"Gracias por contactarnos">>, <<>>, <<>>, <<>>, <<>>, <<>>,
               Bool(FALSE), Bool(TRUE), Num(0)) >>

\* MenuService.getMenuConfig; an unreadable sheet gives the empty list
getMenuConfig(rows, sheetOk) ==
    IF ~sheetOk THEN <<>>
    ELSE LET menuItems ==
                 [i \in 1..Len(rows) |->
                     [number |-> rows[i].number,
                      title |-> rows[i].title,
                      responseType |-> rows[i].responseType,
                      response |-> rows[i].response,
                      aiProvider |-> rows[i].aiProvider,
                      aiContext |-> rows[i].aiContext,
                      escalationMessage |-> rows[i].escalationMessage,
                      afterHoursMessage |-> rows[i].afterHoursMessage,
                      fallbackResponse |-> rows[i].fallbackResponse,
                      returnToMenu |-> rows[i].returnToMenu # Bool(FALSE),
                      active |-> rows[i].active # Bool(FALSE),
                      maxTokens |-> OrElse(rows[i].maxTokens, Num(500))]]
         IN SelectSeq(menuItems, LAMBDA item : Truthy(item.number) /\ NonEmpty(item.title))

\* the settings getters on the state threaded through a request
WithConfig(st, r) == [st |-> [st EXCEPT !.cache = r.cache, !.expiry = r.expiry],
                      value |-> r.value]

BusinessHoursIn(st, env) ==
    WithConfig(st, getBusinessHours(st.cache, st.expiry, settings, now, env.settingsOk))

GreetingsIn(st, env) ==
    WithConfig(st, getGreetings(st.cache, st.expiry, settings, now, env.settingsOk))

FooterIn(st, env) ==
    WithConfig(st, getFooterMessage(st.cache, st.expiry, settings, now, env.settingsOk))

\* MenuService.getMenu
getMenu(st, env) ==
    LET answer(st1, response) ==
            [st |-> logInteraction(st1, env, "menu_display", JsUndefined, response),
             resp |-> response]
        withFooter(isBusinessHours, greetings, ft) ==
            answer(ft.st,
                   [success |-> TRUE,
                    timestamp |-> now,
                    businessHours |-> isBusinessHours,
                    greeting |-> IF isBusinessHours THEN greetings.businessHours
                                 ELSE greetings.afterHours,
                    options |-> SelectSeq(getMenuConfig(menu, env.menuOk),
                                          LAMBDA option : option.active),
                    footer |-> ft.value])
        withGreetings(isBusinessHours, gr) ==
            withFooter(isBusinessHours, gr.value, FooterIn(gr.st, env))
        withHours(bh) ==
            withGreetings(isWithinBusinessHours(now, bh.value),
                          GreetingsIn(bh.st, env))
    IN withHours(BusinessHoursIn(st, env))

\* a variant of handleStaticResponse that does not log the reply
handleStaticResponseUnlogged(st, env, option, sessionId) ==
    [st |-> st,
     resp |-> [success |-> TRUE,
               type |-> <<"static">>,
               title |-> option.title,
               message |-> option.response,
               showMenu |-> option.returnToMenu # FALSE,
               timestamp |-> now]]

\* a variant of handleStaticResponse that offers the menu only with the
\* first static reply of the log
handleStaticResponseMenuOnce(st, env, option, sessionId) ==
    LET answer(response) ==
            [st |-> logInteraction(st, env, "static_response", sessionId, response),
             resp |-> response]
    IN answer([success |-> TRUE,
               type |-> <<"static">>,
               title |-> option.title,
               message |-> option.response,
               showMenu |-> /\ option.returnToMenu # FALSE
                            /\ \A i \in 1..Len(st.logs) :
                                   st.logs[i].type # "static_response",
               timestamp |-> now])

\* a variant of handleStaticResponse that reports a failure when its reply
\* was not logged
handleStaticResponseCheckingLog(st, env, option, sessionId) ==
    LET answer(response) ==
            [st |-> logInteraction(st, env, "static_response", sessionId, response),
             resp |-> [response EXCEPT !.success = env.logOk]]
    IN answer([success |-> TRUE,
               type |-> <<"static">>,
               title |-> option.title,
               message |-> option.response,
               showMenu |-> option.returnToMenu # FALSE,
               timestamp |-> now])

\* MenuService.handleStaticResponse
handleStaticResponse(st, env, option, sessionId) ==
    LET answer(response) ==
            [st |-> logInteraction(st, env, "static_response", sessionId, response),
             resp |-> response]
    IN answer([success |-> TRUE,
               type |-> <<"static">>,
               title |-> option.title,
               message |-> option.response,
               showMenu |-> option.returnToMenu # FALSE,
               timestamp |-> now])

\* a variant of handleAIResponse that asks the provider once more before it
\* falls back
handleAIResponseRetrying(st, env, option, sessionId) ==
    LET aiProvider == OrStr(option.aiProvider, Gemini)
        answer(st1, response) ==
            [st |-> logInteraction(st1, env, "ai_response", sessionId, response),
             resp |-> response]
        withResponse(ai) ==
            IF ai.value.success
            THEN answer(ai.st,
                        [success |-> TRUE,
                         type |-> <<"ai">>,
                         title |-> option.title,
                         message |-> ai.value.content,
                         provider |-> aiProvider,
                         showMenu |-> option.returnToMenu # FALSE,
                         timestamp |-> now])
            ELSE handleStaticResponse(ai.st, env,
                     [option EXCEPT !.response =
                         OrStr(option.fallbackResponse,
                               <<"Lo siento, no puedo procesar tu consulta en este momento.">>)],
                     sessionId)
        retried(first) ==
            IF first.value.success THEN withResponse(first)
            ELSE withResponse(generateResponse(first.st, env, aiProvider))
    IN retried(generateResponse(st, env, aiProvider))

\* MenuService.handleAIResponse
handleAIResponse(st, env, option, sessionId) ==
    LET aiProvider == OrStr(option.aiProvider, Gemini)
        answer(st1, response) ==
            [st |-> logInteraction(st1, env, "ai_response", sessionId, response),
             resp |-> response]
        withResponse(ai) ==
            IF ai.value.success
            THEN answer(ai.st,
                        [success |-> TRUE,
                         type |-> <<"ai">>,
                         title |-> option.title,
                         message |-> ai.value.content,
                         provider |-> aiProvider,
                         showMenu |-> option.returnToMenu # FALSE,
                         timestamp |-> now])
            ELSE handleStaticResponse(ai.st, env,
                     [option EXCEPT !.response =
                         OrStr(option.fallbackResponse,
                               <<"Lo siento, no puedo procesar tu consulta en este momento.">>)],
                     sessionId)
    IN withResponse(generateResponse(st, env, aiProvider))

\* a variant of handleEscalation that logs every escalation as pending
handleEscalationAlwaysPending(st, env, option, sessionId) ==
    LET answer(bh, isBusinessHours) ==
            [st |-> logEscalation(bh.st, env, sessionId, option.title, "pending"),
             resp |-> [success |-> TRUE,
                       type |-> <<"escalation">>,
                       title |-> option.title,
                       message |-> IF isBusinessHours THEN option.escalationMessage
                                   ELSE option.afterHoursMessage,
                       businessHours |-> isBusinessHours,
                       showMenu |-> FALSE,
                       timestamp |-> now]]
        withHours(bh) == answer(bh, isWithinBusinessHours(now, bh.value))
    IN withHours(BusinessHoursIn(st, env))

\* MenuService.handleEscalation
handleEscalation(st, env, option, sessionId) ==
    LET answer(bh, isBusinessHours) ==
            [st |-> logEscalation(bh.st, env, sessionId, option.title,
                                  IF isBusinessHours THEN "pending" ELSE "after_hours"),
             resp |-> [success |-> TRUE,
                       type |-> <<"escalation">>,
                       title |-> option.title,
                       message |->
                           IF isBusinessHours
                           THEN OrStr(option.escalationMessage,
                                      <<"Te estoy conectando con un agente humano.">>)
                           ELSE OrStr(option.afterHoursMessage,
                                      <<"Actualmente estamos fuera del horario de atencion (">>
                                      \o bh.value.display
                                      \o <<"). Tu consulta sera atendida en el proximo horario habil.">>),
                       businessHours |-> isBusinessHours,
                       showMenu |-> FALSE,
                       timestamp |-> now]]
        withHours(bh) == answer(bh, isWithinBusinessHours(now, bh.value))
    IN withHours(BusinessHoursIn(st, env))

\* item.number.toString()
NumberToString(number) ==
    IF number.t = "num" THEN NatToString(number.n) ELSE Render(number)

\* MenuService.processSelection
processSelection(st, env, selection, sessionId) ==
    LET respond(st1, selectedOption) ==
            CASE selectedOption.responseType = STATIC ->
                     handleStaticResponse(st1, env, selectedOption, sessionId)
              [] selectedOption.responseType = AI ->
                     handleAIResponse(st1, env, selectedOption, sessionId)
              [] selectedOption.responseType = ESCALATE ->
                     handleEscalation(st1, env, selectedOption, sessionId)
              [] OTHER ->
                     [st |-> st1,
                      resp |-> [success |-> FALSE,
                                message |-> <<"Configuracion invalida para esta opcion.">>,
                                showMenu |-> TRUE]]
        selected(selectedOption) ==
            respond(logInteraction(st, env, "menu_selection", sessionId,
                        [selection |-> selection,
                         option |-> selectedOption.title]),
                    selectedOption)
        found(menuConfig, hits) ==
            IF hits = {}
            THEN [st |-> st,
                  resp |-> [success |-> FALSE,
                            message |-> <<"Seleccion invalida. Por favor elige una opcion del menu.">>,
                            showMenu |-> TRUE]]
            ELSE selected(menuConfig[CHOOSE i \in hits : \A j \in hits : i <= j])
        find(menuConfig) ==
            IF menuConfig # <<>> /\ selection = JsUndefined
            THEN \* selection.toString() throws in the predicate of find
                 [st |-> logError(st, env, "processSelection",
                                  <<"Cannot read properties of undefined">>,
                                  [selection |-> selection, sessionId |-> sessionId]),
                  resp |-> [success |-> FALSE,
                            message |-> <<"Error procesando tu seleccion. Intenta nuevamente.">>,
                            showMenu |-> TRUE]]
            ELSE found(menuConfig,
                       {i \in 1..Len(menuConfig) :
                           /\ NumberToString(menuConfig[i].number) = selection
                           /\ menuConfig[i].active})
    IN find(getMenuConfig(menu, env.menuOk))

----------------------------------------------------------------------------
(* ChatService *)

MenuKeywords ==
    <<<<"m", "e", "n", "u/">>,
      <<"m", "e", "n", "u">>,
      <<"o", "p", "c", "i", "o", "n", "e", "s">>,
      <<"a", "y", "u", "d", "a">>>>

orderKeywords ==
    <<<<"p", "e", "d", "i", "d", "o">>,
      <<"o", "r", "d", "e", "n">>,
      <<"c", "o", "m", "p", "r", "a">>,
      <<"e", "n", "v", "i/", "o">>,
      <<"s", "e", "g", "u", "i", "m", "i", "e", "n", "t", "o">>,
      <<"r", "a", "s", "t", "r", "e", "o">>,
      <<"e", "n", "t", "r", "e", "g", "a">>>>

productKeywords ==
    <<<<"p", "r", "o", "d", "u", "c", "t", "o">>,
      <<"a", "r", "t", "i/", "c", "u", "l", "o">>,
      <<"d", "i", "s", "p", "o", "n", "i", "b", "i", "l", "i", "d", "a", "d">>,
      <<"p", "r", "e", "c", "i", "o">>,
      <<"s", "t", "o", "c", "k">>,
      <<"c", "a", "r", "a", "c", "t", "e", "r", "i/", "s", "t", "i", "c", "a">>>>

escalationKeywords ==
    <<<<"a", "g", "e", "n", "t", "e">>,
      <<"h", "u", "m", "a", "n", "o">>,
      <<"p", "e", "r", "s", "o", "n", "a">>,
      <<"h", "a", "b", "l", "a", "r">>,
      <<"r", "e", "p", "r", "e", "s", "e", "n", "t", "a", "n", "t", "e">>,
      <<"a", "y", "u", "d", "a", " ", "d", "i", "r", "e", "c", "t", "a">>>>

containsAny(message, keywords) ==
    \E i \in 1..Len(keywords) : Includes(message, keywords[i])

containsOrderKeywords(message) == containsAny(message, orderKeywords)
containsProductKeywords(message) == containsAny(message, productKeywords)
containsEscalationKeywords(message) == containsAny(message, escalationKeywords)

\* ChatService.determineResponseStrategy: the type of the strategy. The order
\* and product branches call this.extractOrderContext and
\* this.extractProductContext, which ChatService does not define: the call
\* throws a TypeError (raised) before the strategy is returned
determineResponseStrategy(message) ==
    LET lowerMessage == ToLowerCase(message)
    IN IF containsAny(lowerMessage, MenuKeywords)
       THEN [type |-> "menu_request", raised |-> FALSE]
       ELSE IF containsOrderKeywords(lowerMessage)
       THEN [type |-> "order_inquiry", raised |-> TRUE]
       ELSE IF containsProductKeywords(lowerMessage)
       THEN [type |-> "product_inquiry", raised |-> TRUE]
       ELSE IF containsEscalationKeywords(lowerMessage)
       THEN [type |-> "escalation", raised |-> FALSE]
       ELSE [type |-> "general_ai", raised |-> FALSE]

\* the end of the run of digits that starts at position i
RECURSIVE DigitRunEnd(_, _)
DigitRunEnd(s, i) ==
    IF i < Len(s) /\ IsDigit(s[i + 1]) THEN DigitRunEnd(s, i + 1) ELSE i

\* ChatService.extractOrderId: the first match of /\b\d{12,}\b/, <<>> for null
extractOrderId(message) ==
    LET starts == {i \in 1..Len(message) :
                      /\ IsDigit(message[i])
                      /\ (i = 1 \/ ~IsWordChar(message[i - 1]))
                      /\ DigitRunEnd(message, i) - i + 1 >= 12
                      /\ \/ DigitRunEnd(message, i) = Len(message)
                         \/ ~IsWordChar(message[DigitRunEnd(message, i) + 1])}
    IN IF starts = {} THEN <<>>
       ELSE LET i == CHOOSE k \in starts : \A j \in starts : k <= j
            IN SubSeq(message, i, DigitRunEnd(message, i))

\* ChatService.extractProductId: the first match of /MLA\d+/i, <<>> for null
extractProductId(message) ==
    LET starts == {i \in 1..(Len(message) - 3) :
                      /\ ToLowerCase(SubSeq(message, i, i + 2)) = <<"m", "l", "a">>
                      /\ IsDigit(message[i + 3])}
    IN IF starts = {} THEN <<>>
       ELSE LET i == CHOOSE k \in starts : \A j \in starts : k <= j
            IN SubSeq(message, i, DigitRunEnd(message, i + 3))

\* ChatService.formatOrderInfo
formatOrderInfo(orderData) ==
    <<"Informacion del Pedido. Numero: ">> \o orderData.id
    \o <<" Estado: ">> \o orderData.status

\* ChatService.formatProductInfo
formatProductInfo(productData) == productData.title \o <<" Precio, Disponibles, Condicion">>

\* ChatService.handleDefault
handleDefault ==
    [success |-> TRUE,
     type |-> <<"default">>,
     message |-> <<"Entiendo tu consulta. Te gustaria ver el menu de opciones?">>,
     showMenu |-> TRUE,
     timestamp |-> now]

\* ChatService.handleOrderInquiry
handleOrderInquiry(st, env, message, sessionId) ==
    LET answer(ai) == [st |-> ai.st, resp |-> ai.value]
        withDetails(od) ==
            IF od.value.success
            THEN [st |-> od.st,
                  resp |-> [success |-> TRUE,
                            type |-> <<"order_info">>,
                            message |-> formatOrderInfo(od.value.data),
                            data |-> od.value.data,
                            showMenu |-> TRUE,
                            timestamp |-> now]]
            ELSE answer(generateResponse(od.st, env, Gemini))
        withId(orderId) ==
            IF NonEmpty(orderId) THEN withDetails(getOrderDetails(st, env, orderId))
            ELSE withDetails([st |-> st, value |-> [success |-> FALSE]])
    IN withId(extractOrderId(message))

\* ChatService.handleProductInquiry
handleProductInquiry(st, env, message, sessionId) ==
    LET answer(ai) == [st |-> ai.st, resp |-> ai.value]
        withDetails(pi) ==
            IF pi.value.success
            THEN [st |-> pi.st,
                  resp |-> [success |-> TRUE,
                            type |-> <<"product_info">>,
                            message |-> formatProductInfo(pi.value.data),
                            data |-> pi.value.data,
                            showMenu |-> TRUE,
                            timestamp |-> now]]
            ELSE answer(generateResponse(pi.st, env, Gemini))
        withId(productId) ==
            IF NonEmpty(productId) THEN withDetails(getProductInfo(st, env, productId))
            ELSE withDetails([st |-> st, value |-> [success |-> FALSE]])
    IN withId(extractProductId(message))

\* ChatService.handleGeneralAI
handleGeneralAI(st, env, message, sessionId) ==
    LET answer(ai) ==
            [st |-> ai.st,
             resp |-> IF ai.value.success
                      THEN [success |-> TRUE,
                            type |-> <<"ai_chat">>,
                            message |-> ai.value.content,
                            showMenu |-> TRUE,
                            timestamp |-> now]
                      ELSE handleDefault]
    IN answer(generateResponse(st, env, Gemini))

\* ChatService.handleChatEscalation
handleChatEscalation(st, env, message, sessionId) ==
    LET answer(bh, isBusinessHours) ==
            [st |-> logEscalation(bh.st, env, sessionId, message,
                                  IF isBusinessHours THEN "pending" ELSE "after_hours"),
             resp |-> [success |-> TRUE,
                       type |-> <<"escalation">>,
                       message |-> IF isBusinessHours
                                   THEN <<"Te conectare con un agente humano.">>
                                   ELSE <<"Actualmente estamos fuera del horario de atencion.">>,
                       businessHours |-> isBusinessHours,
                       showMenu |-> FALSE,
                       timestamp |-> now]]
        withHours(bh) == answer(bh, isWithinBusinessHours(now, bh.value))
    IN withHours(BusinessHoursIn(st, env))

\* ChatService.getSessionContext on the stored blobs: {} when none is stored
getSessionContext(sessions, sessionId) ==
    LET hits == {i \in 1..Len(sessions) : sessions[i].key = SessionKey(sessionId)}
    IN IF hits = {} THEN EmptyObject ELSE sessions[CHOOSE i \in hits : TRUE].ctx

\* { ...currentContext, ...updates }
Merge(currentContext, updates) ==
    [k \in (DOMAIN currentContext \cup DOMAIN updates) \ {"emptyObject"} |->
        IF k \in DOMAIN updates THEN updates[k] ELSE currentContext[k]]

\* a variant of updateSessionContext in which the stored keys win over the
\* updates
updateSessionContextKeepingStored(sessions, sessionId, updates) ==
    LET key == SessionKey(sessionId)
        newContext == Merge(updates, getSessionContext(sessions, sessionId))
        hits == {i \in 1..Len(sessions) : sessions[i].key = key}
    IN IF hits = {} THEN Append(sessions, [key |-> key, ctx |-> newContext])
       ELSE [sessions EXCEPT ![CHOOSE i \in hits : TRUE] =
                                 [key |-> key, ctx |-> newContext]]

\* a variant of updateSessionContext that stores the updates alone
updateSessionContextReplacing(sessions, sessionId, updates) ==
    LET key == SessionKey(sessionId)
        newContext == Merge(EmptyObject, updates)
        hits == {i \in 1..Len(sessions) : sessions[i].key = key}
    IN IF hits = {} THEN Append(sessions, [key |-> key, ctx |-> newContext])
       ELSE [sessions EXCEPT ![CHOOSE i \in hits : TRUE] =
                                 [key |-> key, ctx |-> newContext]]

\* ChatService.updateSessionContext
updateSessionContext(sessions, sessionId, updates) ==
    LET key == SessionKey(sessionId)
        newContext == Merge(getSessionContext(sessions, sessionId), updates)
        hits == {i \in 1..Len(sessions) : sessions[i].key = key}
    IN IF hits = {} THEN Append(sessions, [key |-> key, ctx |-> newContext])
       ELSE [sessions EXCEPT ![CHOOSE i \in hits : TRUE] =
                                 [key |-> key, ctx |-> newContext]]

\* the error path of processMessage
ProcessMessageFailed(st, env, message, sessionId, errorMessage) ==
    [st |-> logError(st, env, "processMessage", errorMessage,
                     [message |-> message, sessionId |-> sessionId]),
     resp |-> [success |-> FALSE,
               message |-> <<"Lo siento, ocurrio un error procesando tu mensaje.">>,
               showMenu |-> TRUE,
               timestamp |-> now],
     strategy |-> "none"]

\* ChatService.processMessage; env.sessionOk is whether setProperty of the
\* session blob succeeds (it throws for a value over the size limit of a
\* property or a store over its quota)
processMessage(st, env, message, sessionId) ==
    IF ~env.propsOk
    THEN ProcessMessageFailed(st, env, message, sessionId,
                              <<"Script Properties unavailable">>)
    ELSE IF message = JsUndefined
    THEN ProcessMessageFailed(st, env, message, sessionId,
                              <<"Cannot read properties of undefined">>)
    ELSE LET logged(st1, strategy, response) ==
                 [st |-> logInteraction(st1, env, "chat_message", sessionId,
                             [userMessage |-> message,
                              responseType |-> strategy,
                              botResponse |-> response]),
                  resp |-> response,
                  strategy |-> strategy]
             answered(strategy, r) ==
                 IF ~env.sessionOk
                 THEN ProcessMessageFailed(r.st, env, message, sessionId,
                                           <<"Argument too large: value">>)
                 ELSE logged([r.st EXCEPT !.props.sessions =
                                 updateSessionContext(@, sessionId,
                                     [lastMessage |-> message,
                                      lastResponse |-> r.resp,
                                      timestamp |-> now])],
                             strategy, r.resp)
             dispatch(strategy) ==
                 IF strategy.raised
                 THEN ProcessMessageFailed(st, env, message, sessionId,
                          <<"this.extractOrderContext is not a function">>)
                 ELSE CASE strategy.type = "menu_request" ->
                               answered(strategy.type, getMenu(st, env))
                        [] strategy.type = "order_inquiry" ->
                               answered(strategy.type,
                                        handleOrderInquiry(st, env, message, sessionId))
                        [] strategy.type = "product_inquiry" ->
                               answered(strategy.type,
                                        handleProductInquiry(st, env, message, sessionId))
                        [] strategy.type = "general_ai" ->
                               answered(strategy.type,
                                        handleGeneralAI(st, env, message, sessionId))
                        [] OTHER ->
                               answered(strategy.type,
                                        handleChatEscalation(st, env, message, sessionId))
         IN dispatch(determineResponseStrategy(message))

----------------------------------------------------------------------------
(* main.gs *)

\* a variant of initializeSystem that marks the system as initialized before
\* it sets up the sheets
initializeSystemMarkingFirst(st, env) ==
    [st |-> [st EXCEPT !.props.SYSTEM_INITIALIZED = TRUE],
     raised |-> ~(env.menuOk /\ env.logOk /\ env.settingsOk)]

\* initializeSystem: SheetsService.initializeSheets throws when a sheet
\* cannot be opened; ConfigService.initializeConfig swallows its errors
initializeSystem(st, env) ==
    IF env.menuOk /\ env.logOk /\ env.settingsOk
    THEN [st |-> [st EXCEPT !.props.SYSTEM_INITIALIZED = TRUE], raised |-> FALSE]
    ELSE [st |-> st, raised |-> TRUE]

\* a variant of the catch block that logs the error and throws it again
RequestRethrown(st, env, params, errorMessage) ==
    [st |-> logError(st, env, "handleChatbotRequest", errorMessage, params),
     resp |-> EmptyObject,
     raised |-> TRUE,
     dispatched |-> "none"]

\* the catch block of handleChatbotRequest
RequestFailed(st, env, params, errorMessage) ==
    [st |-> logError(st, env, "handleChatbotRequest", errorMessage, params),
     resp |-> [success |-> FALSE,
               error |-> <<"Lo siento, ocurrio un error. Por favor intenta nuevamente.">>,
               timestamp |-> now],
     raised |-> FALSE,
     dispatched |-> "none"]

\* handleChatbotRequest; params is an object literal or null
handleChatbotRequest(st, env, params) ==
    IF ~env.propsOk
    THEN RequestFailed(st, env, params, <<"Script Properties unavailable">>)
    ELSE LET answered(r, name) ==
                 [st |-> r.st, resp |-> r.resp, raised |-> FALSE, dispatched |-> name]
             dispatch(st1, action, userInput, sessionId) ==
                 IF action = <<"processSelection">>
                 THEN answered(processSelection(st1, env, userInput, sessionId),
                               "processSelection")
                 ELSE IF action = <<"sendMessage">>
                 THEN answered(processMessage(st1, env, userInput, sessionId),
                               "processMessage")
                 ELSE answered(getMenu(st1, env), "getMenu")
             initialized(init) ==
                 IF init.raised
                 THEN RequestFailed(init.st, env, params, <<"Error initializing system">>)
                 ELSE IF params = JsNull
                 THEN RequestFailed(init.st, env, params,
                                    <<"Cannot destructure property of null">>)
                 ELSE dispatch(init.st, Field(params, "action"),
                               Field(params, "userInput"), Field(params, "sessionId"))
         IN IF st.props.SYSTEM_INITIALIZED
            THEN initialized([st |-> st, raised |-> FALSE])
            ELSE initialized(initializeSystem(st, env))

\* the three headers of addCorsHeaders, as pairs of name and value
CorsHeaders ==
    {<<"Access-Control-Allow-Origin", "*">>,
     <<"Access-Control-Allow-Methods", "GET, POST, OPTIONS">>,
     <<"Access-Control-Allow-Headers", "Content-Type, Authorization">>}

\* ContentService.createTextOutput(JSON.stringify(response))
\*     .setMimeType(ContentService.MimeType.JSON): content is the object whose
\* JSON text the output holds
JsonOutput(response) ==
    [content |-> response, mimeType |-> "JSON", headers |-> {}]

\* addCorsHeaders
addCorsHeaders(output) == [output EXCEPT !.headers = @ \cup CorsHeaders]

\* doGet up to its call of handleChatbotRequest: the parameters it hands
\* over (call is false when reading e.parameter of a null event throws), the
\* error text of its catch block, and whether its outputs pass through
\* addCorsHeaders
doGet(e) ==
    IF e = JsNull
    THEN [call |-> FALSE, params |-> JsNull, cors |-> FALSE,
          error |-> <<"Internal server error">>]
    ELSE [call |-> TRUE,
          params |-> IF "parameter" \in DOMAIN e THEN e.parameter ELSE JsNull,
          cors |-> FALSE,
          error |-> <<"Internal server error">>]

\* doPost up to its call of handleChatbotRequest; the contents of postData
\* are the JSON text of an object (json) or a text JSON.parse throws on; a
\* request that is not a JSON post is handed to doGet
doPost(e) ==
    IF e = JsNull
    THEN [call |-> FALSE, params |-> JsNull, cors |-> TRUE,
          error |-> <<"Invalid request format">>]
    ELSE IF "postData" \in DOMAIN e /\ e.postData.type = "application/json"
    THEN [call |-> "json" \in DOMAIN e.postData.contents,
          params |-> IF "json" \in DOMAIN e.postData.contents
                     THEN e.postData.contents.json ELSE JsNull,
          cors |-> TRUE,
          error |-> <<"Invalid request format">>]
    ELSE doGet(e)

\* the output doGet and doPost return after the call: the response of
\* handleChatbotRequest, or the answer of the catch block when the entry
\* point or handleChatbotRequest raised
WebOutput(route, raised, response) ==
    LET output == IF raised
                  THEN JsonOutput([success |-> FALSE, error |-> route.error])
                  ELSE JsonOutput(response)
    IN IF route.cors THEN addCorsHeaders(output) ELSE output

----------------------------------------------------------------------------
(* Messages of the runs *)

MsgMenu == <<"M", "e", "n", "u">>
MsgOrderId == <<"p", "e", "d", "i", "d", "o", " ", "1", "2", "3", "4", "5", "6", "7", "8", "9", "0", "1", "2">>
MsgOrder == <<"m", "i", " ", "p", "e", "d", "i", "d", "o">>
MsgProductId == <<"p", "r", "e", "c", "i", "o", " ", "M", "L", "A", "1", "2">>
MsgProduct == <<"s", "t", "o", "c", "k">>
MsgAgent == <<"u", "n", " ", "a", "g", "e", "n", "t", "e">>
MsgHello == <<"h", "o", "l", "a">>

----------------------------------------------------------------------------
(* The clock *)

Monday == MinutesPerDay

\* the clock advances by d minutes, at most maxElapsed minutes in a run
Tick(d, maxElapsed) ==
    /\ now + d <= t0 + maxElapsed
    /\ now' = now + d
    /\ UNCHANGED <<logsHeader, purge, t0, settings, configCache, cacheExpiry, menu, logs, props,
                   loaded, last, served>>

----------------------------------------------------------------------------
(* History of the settings cache: the last successful load, forgotten by set *)

NotLoaded == [some |-> FALSE]
LoadedAt(at, cfg) == [some |-> TRUE, at |-> at, cfg |-> cfg]

\* the history after a getter returned r with the settings sheet readable or not
LoadedAfter(r, sheetOk) ==
    IF r.read /\ sheetOk THEN LoadedAt(now, r.cache.cfg) ELSE loaded

----------------------------------------------------------------------------
(* Operations of ConfigService, called directly *)

CfgKeys == {"footer_message", "k"}
CfgVals == {Str(<<"a">>), Str(<<"4", "2">>)}
CfgDefaults == {Str(<<"d">>)}

CfgGet(key, defaultValue, sheetOk) ==
    LET r == get(configCache, cacheExpiry, settings, now, sheetOk, key, defaultValue)
    IN /\ configCache' = r.cache
       /\ cacheExpiry' = r.expiry
       /\ loaded' = LoadedAfter(r, sheetOk)
       /\ last' = [op |-> "get", key |-> key, defaultValue |-> defaultValue,
                   ok |-> sheetOk, read |-> r.read, value |-> r.value]
       /\ UNCHANGED <<logsHeader, purge, now, t0, settings, menu, logs, props, served>>

CfgSet(key, value, sheetOk) ==
    LET r == set(configCache, cacheExpiry, settings, sheetOk, key, value)
    IN /\ Len(r.rows) <= MaxSettingsRows
       /\ settings' = r.rows
       /\ configCache' = r.cache
       /\ cacheExpiry' = r.expiry
       /\ loaded' = NotLoaded
       /\ last' = [op |-> "set", key |-> key, value |-> value, ok |-> sheetOk]
       /\ UNCHANGED <<logsHeader, purge, now, t0, menu, logs, props, served>>

GetterNames == {"getConfig", "getBusinessHours", "getGreetings",
                "getFooterMessage", "getAIConfig"}

Getter(name, sheetOk) ==
    CASE name = "getBusinessHours" ->
             getBusinessHours(configCache, cacheExpiry, settings, now, sheetOk)
      [] name = "getGreetings" ->
             getGreetings(configCache, cacheExpiry, settings, now, sheetOk)
      [] name = "getFooterMessage" ->
             getFooterMessage(configCache, cacheExpiry, settings, now, sheetOk)
      [] name = "getAIConfig" ->
             getAIConfig(configCache, cacheExpiry, settings, now, sheetOk)
      [] OTHER ->
             LET r == getConfig(configCache, cacheExpiry, settings, now, sheetOk)
             IN [value |-> r.config, cache |-> r.cache, expiry |-> r.expiry,
                 read |-> r.read]

CfgGetter(name, sheetOk) ==
    LET r == Getter(name, sheetOk)
    IN /\ configCache' = r.cache
       /\ cacheExpiry' = r.expiry
       /\ loaded' = LoadedAfter(r, sheetOk)
       /\ last' = [op |-> name, ok |-> sheetOk, read |-> r.read, value |-> r.value]
       /\ UNCHANGED <<logsHeader, purge, now, t0, settings, menu, logs, props, served>>

\* somebody edits a cell of the Settings sheet by hand
EditSettings(i, value) ==
    /\ i \in 1..Len(settings)
    /\ settings[i][1] \in CfgKeys
    /\ settings[i][2] # value
    /\ settings' = [settings EXCEPT ![i] = <<settings[i][1], value>>]
    /\ last' = [op |-> "edit"]
    /\ UNCHANGED <<logsHeader, purge, now, t0, configCache, cacheExpiry, menu, logs, props, loaded,
                   served>>

\* somebody adds a row to the Settings sheet by hand
AddSettingsRow(key, value) ==
    /\ Len(settings) < MaxSettingsRows
    /\ settings' = Append(settings, <<key, value>>)
    /\ last' = [op |-> "edit"]
    /\ UNCHANGED <<logsHeader, purge, now, t0, configCache, cacheExpiry, menu, logs, props, loaded,
                   served>>

InitConfig ==
    /\ now = Monday + 8 * 60 + 58
    /\ t0 = now
    /\ settings = setupSettingsSheet
    /\ configCache = NoCache
    /\ cacheExpiry = 0
    /\ menu = <<>>
    /\ logs = <<>>
    /\ props = InitialProps(<<"k", "e", "y">>)
    /\ loaded = NotLoaded
    /\ served = 0
    /\ logsHeader = TRUE
    /\ purge = NoPurge
    /\ last = [op |-> "init"]

NextConfig ==
    \/ \E d \in {4, 5} : Tick(d, MaxElapsed)
    \/ \E k \in CfgKeys, dv \in CfgDefaults, ok \in BOOLEAN : CfgGet(k, dv, ok)
    \/ \E k \in CfgKeys, v \in CfgVals, ok \in BOOLEAN : CfgSet(k, v, ok)
    \/ \E i \in 1..MaxSettingsRows, v \in CfgVals : EditSettings(i, v)
    \/ \E v \in CfgVals : AddSettingsRow("footer_message", v)

\* get, set and edits by hand of the Settings sheet, under a moving clock
SpecConfig == InitConfig /\ [][NextConfig]_vars

NextGetters ==
    \/ \E d \in {4, 5} : Tick(d, MaxElapsed)
    \/ \E k \in CfgKeys, dv \in CfgDefaults, ok \in BOOLEAN : CfgGet(k, dv, ok)
    \/ \E n \in GetterNames, ok \in BOOLEAN : CfgGetter(n, ok)
    \/ \E i \in 1..MaxSettingsRows, v \in CfgVals : EditSettings(i, v)

\* the getters of ConfigService over a Settings sheet that may be unreadable
SpecGetters == InitConfig /\ [][NextGetters]_vars

----------------------------------------------------------------------------
(* isWithinBusinessHours applied to schedules and instants drawn at Init *)

T0830 == <<"0", "8", ":", "3", "0">>
T1745 == <<"1", "7", ":", "4", "5">>
T0000 == <<"0", "0", ":", "0", "0">>
T2359 == <<"2", "3", ":", "5", "9">>
SatSun == <<"S", "a", "t", ",", " ", "S", "u", "n">>
MonOnly == <<"M", "o", "n">>

HoursRows(start, end, days) ==
    << <<"business_hours_start", Str(start)>>,
       <<"business_hours_end", Str(end)>>,
       <<"business_days", Str(days)>> >>

\* a schedule with entries for Monday (open) and Tuesday (closed) only
PartialSchedule ==
    [schedule |-> [d \in {1, 2} |->
                      [open |-> d = 1, start |-> Str(T0900), end |-> Str(T1800)]],
     display |-> <<"partial">>]

\* each input names the schedule handed to isWithinBusinessHours and, apart
\* from it, what the schedule means: the open weekdays and the first and
\* last open minute of the day
HoursInputs ==
    {[kind |-> "settings", rows |-> setupSettingsSheet,
      openDays |-> 1..5, first |-> 540, final |-> 1080],
     [kind |-> "settings", rows |-> HoursRows(T0830, T1745, SatSun),
      openDays |-> {0, 6}, first |-> 510, final |-> 1065],
     [kind |-> "settings", rows |-> HoursRows(T0000, T2359, MonOnly),
      openDays |-> {1}, first |-> 0, final |-> 1439],
     [kind |-> "settings", rows |-> HoursRows(T0900, T0900, MonToFri),
      openDays |-> 1..5, first |-> 540, final |-> 540],
     [kind |-> "default", rows |-> <<>>,
      openDays |-> 1..5, first |-> 540, final |-> 1080],
     [kind |-> "partial", rows |-> <<>>,
      openDays |-> {1}, first |-> 540, final |-> 1080]}

HoursMinutes == {0, 509, 510, 511, 539, 540, 541, 1065, 1066, 1079, 1080, 1081, 1439}

ScheduleOf(input) ==
    CASE input.kind = "settings" -> BusinessHoursOf(ConfigOfRows(input.rows))
      [] input.kind = "default" -> getDefaultBusinessHours
      [] OTHER -> PartialSchedule

InitHours ==
    /\ now \in {d * MinutesPerDay + m : d \in 0..6, m \in HoursMinutes}
    /\ t0 = now
    /\ settings = setupSettingsSheet
    /\ configCache = NoCache
    /\ cacheExpiry = 0
    /\ menu = <<>>
    /\ logs = <<>>
    /\ props = InitialProps(<<"k", "e", "y">>)
    /\ loaded = NotLoaded
    /\ served = 0
    /\ logsHeader = TRUE
    /\ purge = NoPurge
    /\ \E input \in HoursInputs : last = [op |-> "hoursInput", input |-> input]

ApplyHours ==
    /\ last.op = "hoursInput"
    /\ last' = [op |-> "isWithinBusinessHours", input |-> last.input,
                result |-> isWithinBusinessHours(now, ScheduleOf(last.input))]
    /\ UNCHANGED <<logsHeader, purge, now, t0, settings, configCache, cacheExpiry, menu, logs,
                   props, loaded, served>>

NextHours == ApplyHours

\* isWithinBusinessHours as a function of an instant and a schedule
SpecHours == InitHours /\ [][NextHours]_vars

----------------------------------------------------------------------------
(* Requests through handleChatbotRequest *)

\* the Menu sheet of the runs: the sample rows and rows added by hand
MenuTable ==
    setupMenuSheet \o
    << MenuRow(Num(5), <<"Garantias">>, AI, <<>>, Claude, <<>>, <<>>, <<>>, <<>>,
               Bool(TRUE), Bool(TRUE), Num(0)),
       MenuRow(Num(6), <<"Promociones">>, STATIC, <<"Sin promociones">>, <<>>,
               <<>>, <<>>, <<>>, <<>>, Bool(TRUE), Bool(FALSE), Num(0)),
       MenuRow(Num(7), <<"Sucursales">>, <<"link">>, <<>>, <<>>, <<>>, <<>>,
               <<>>, <<>>, Bool(TRUE), Bool(TRUE), Num(0)),
       MenuRow(Num(8), <<"Reclamos">>, ESCALATE, <<>>, <<>>, <<>>, <<>>, <<>>,
               <<>>, Bool(TRUE), Bool(TRUE), Num(0)) >>

AiText == [kind |-> "resp", code |-> 200, text |-> <<"r", "e", "s", "p">>]
AiEmpty == [kind |-> "resp", code |-> 200, text |-> <<>>]
AiError == [kind |-> "resp", code |-> 500, text |-> JsUndefined]
Throws == [kind |-> "throw"]
Http200 == [kind |-> "resp", code |-> 200]
Http404 == [kind |-> "resp", code |-> 404]
Refreshed == [kind |-> "resp", code |-> 200, access_token |-> <<"token1">>,
              refresh_token |-> <<"refresh1">>, expires_in |-> 360]
RefreshDenied == [kind |-> "resp", code |-> 400, access_token |-> <<>>,
                  refresh_token |-> <<>>, expires_in |-> 0]

\* the services behind a request: which stores answer and what the HTTP
\* calls yield
Env(propsOk, menuOk, settingsOk, logOk, ai, mlRefresh, mlOrder, mlItem) ==
    [propsOk |-> propsOk, menuOk |-> menuOk, settingsOk |-> settingsOk,
     logOk |-> logOk, ai |-> ai, mlRefresh |-> mlRefresh, mlOrder |-> mlOrder,
     mlItem |-> mlItem, elapsedMs |-> 0, sessionOk |-> TRUE]

AllUp == Env(TRUE, TRUE, TRUE, TRUE, AiText, Refreshed, Http200, Http200)
NoProps == [AllUp EXCEPT !.propsOk = FALSE]
NoMenu == [AllUp EXCEPT !.menuOk = FALSE]
NoSettings == [AllUp EXCEPT !.settingsOk = FALSE]
NoLog == [AllUp EXCEPT !.logOk = FALSE]
WithAi(outcome) == [AllUp EXCEPT !.ai = outcome]

S1 == <<"s", "1">>

Selection(userInput) ==
    [action |-> <<"processSelection">>, userInput |-> userInput, sessionId |-> S1]
Message(userInput) ==
    [action |-> <<"sendMessage">>, userInput |-> userInput, sessionId |-> S1]

Request(params, env) == [params |-> params, env |-> env]

MenuRequests ==
    {Request([action |-> <<"getMenu">>], e) : e \in {AllUp, NoMenu, NoSettings, NoLog}}
    \cup {Request(EmptyObject, AllUp),
          Request([action |-> <<"bogus">>, sessionId |-> S1], AllUp),
          Request(JsNull, AllUp), Request(JsNull, NoLog),
          Request([action |-> <<"getMenu">>], NoProps)}

SelectionRequests ==
    {Request(Selection(<<"1">>), e) :
        e \in {AllUp, NoLog, WithAi(AiEmpty), WithAi(AiError), WithAi(Throws)}}
    \cup {Request(Selection(<<"3">>), e) : e \in {AllUp, NoLog}}
    \cup {Request(Selection(<<"4">>), e) : e \in {AllUp, NoLog, NoSettings}}
    \cup {Request(Selection(n), AllUp) :
             n \in {<<"0">>, <<"5">>, <<"6">>, <<"7">>, <<"8">>, <<"9", "9">>}}
    \cup {Request([action |-> <<"processSelection">>, sessionId |-> S1], e) :
             e \in {AllUp, NoMenu, NoLog}}
    \cup {Request([action |-> <<"processSelection">>, userInput |-> <<"3">>], AllUp)}

MessageRequests ==
    {Request(Message(m), AllUp) :
        m \in {MsgMenu, MsgOrderId, MsgOrder, MsgProductId, MsgProduct, MsgAgent,
               MsgHello}}
    \cup {Request(Message(MsgOrderId), [AllUp EXCEPT !.mlRefresh = RefreshDenied]),
          Request(Message(MsgOrderId),
                  [AllUp EXCEPT !.mlOrder = Http404, !.ai = AiError]),
          Request(Message(MsgOrder), WithAi(AiError)),
          Request(Message(MsgProductId),
                  [AllUp EXCEPT !.mlItem = Http404, !.ai = Throws]),
          Request(Message(MsgAgent), NoLog),
          Request(Message(MsgHello), WithAi(AiEmpty)),
          Request([action |-> <<"sendMessage">>, sessionId |-> S1], AllUp),
          Request([action |-> <<"sendMessage">>, userInput |-> MsgAgent], AllUp)}

Requests == MenuRequests \cup SelectionRequests \cup MessageRequests

\* one web request served by handleChatbotRequest
HandleRequest(params, env) ==
    /\ served < MaxRequests
    /\ \E out \in {handleChatbotRequest(
                       [cache |-> configCache, expiry |-> cacheExpiry, logs |-> logs,
                        props |-> props, aiCalls |-> 0, httpCalls |-> 0,
                        fetched |-> <<>>, refreshCalls |-> 0, orderCalls |-> 0, orderToken |-> <<>>],
                       env, params)} :
           /\ configCache' = out.st.cache
           /\ cacheExpiry' = out.st.expiry
           /\ logs' = out.st.logs
           /\ props' = out.st.props
           /\ loaded' = IF out.st.cache # configCache \/ out.st.expiry # cacheExpiry
                        THEN LoadedAt(now, out.st.cache.cfg) ELSE loaded
           /\ last' = [op |-> "handleChatbotRequest", params |-> params, env |-> env,
                       resp |-> out.resp, raised |-> out.raised,
                       dispatched |-> out.dispatched, aiCalls |-> out.st.aiCalls,
                       httpCalls |-> out.st.httpCalls]
    /\ served' = served + 1
    /\ UNCHANGED <<logsHeader, purge, now, t0, settings, menu>>

Init ==
    /\ now = Monday + 8 * 60 + 59
    /\ t0 = now
    /\ settings = setupSettingsSheet
    /\ configCache = NoCache
    /\ cacheExpiry = 0
    /\ menu = MenuTable
    /\ logs = <<>>
    /\ \E initialized \in BOOLEAN :
           props = [InitialProps(<<"k", "e", "y">>) EXCEPT
                       !.SYSTEM_INITIALIZED = initialized]
    /\ loaded = NotLoaded
    /\ served = 0
    /\ logsHeader = TRUE
    /\ purge = NoPurge
    /\ last = [op |-> "init"]

Next ==
    \/ Tick(1, MaxElapsedReq)
    \/ \E r \in Requests : HandleRequest(r.params, r.env)

\* requests served one after the other under a moving clock
Spec == Init /\ [][Next]_vars

----------------------------------------------------------------------------
(* JavaScript numbers: the binary64 quotients LoggingService.getAnalytics   *)
(* computes. A positive double is its 53-bit significand, written as the    *)
(* leading 1 followed by four limbs of 13 bits, and the exponent of the     *)
(* leading bit; an integer that stays below 2^31 is kept as an integer      *)

\* the bits of a limb, and the limbs that follow the leading bit
LimbBits == 13
Limbs == 4
Limb == 2 ^ LimbBits

\* the double 0
Zero == [zero |-> TRUE]

\* limbs + 1, with the carry out of the first limb
RECURSIVE Increment(_)
Increment(limbs) ==
    IF limbs = <<>> THEN [limbs |-> <<>>, carry |-> 1]
    ELSE IF limbs[Len(limbs)] + 1 < Limb
    THEN [limbs |-> [limbs EXCEPT ![Len(limbs)] = @ + 1], carry |-> 0]
    ELSE LET up(r) == [limbs |-> Append(r.limbs, 0), carry |-> r.carry]
         IN up(Increment(SubSeq(limbs, 1, Len(limbs) - 1)))

\* round to nearest, ties to even: limbs holds the 52 bits after the leading
\* 1 of the exact value, above is TRUE when the rest exceeds half a unit of
\* the last bit, tie when it equals half a unit
RoundToDouble(limbs, exp, above, tie) ==
    IF above \/ (tie /\ limbs[Limbs] % 2 = 1)
    THEN LET carried(r) ==
                 \* a carry out of 1.11...1 gives 1.00...0 with the next exponent
                 [zero |-> FALSE, limbs |-> r.limbs, exp |-> exp + r.carry]
         IN carried(Increment(limbs))
    ELSE [zero |-> FALSE, limbs |-> limbs, exp |-> exp]

\* n limbs of the binary expansion of r / t (r < t), and the remainder
RECURSIVE Expand(_, _, _)
Expand(r, t, n) ==
    IF n = 0 THEN [limbs |-> <<>>, rem |-> r]
    ELSE LET cons(rest) == [limbs |-> <<(r * Limb) \div t>> \o rest.limbs,
                            rem |-> rest.rem]
         IN cons(Expand((r * Limb) % t, t, n - 1))

\* s and t scaled by powers of two until t <= s < 2t; exp is the power of two
\* taken out of s / t
RECURSIVE Normalize(_, _, _)
Normalize(s, t, exp) ==
    IF s < t THEN Normalize(2 * s, t, exp - 1)
    ELSE IF s >= 2 * t THEN Normalize(s, 2 * t, exp + 1)
    ELSE [s |-> s, t |-> t, exp |-> exp]

\* the double s / t of two integers, t > 0
Divide(s, t) ==
    IF s = 0 THEN Zero
    ELSE LET rounded(n, q) ==
                 RoundToDouble(q.limbs, n.exp, 2 * q.rem > n.t, 2 * q.rem = n.t)
             expanded(n) == rounded(n, Expand(n.s - n.t, n.t, Limbs))
         IN expanded(Normalize(s, t, 0))

\* limbs * m + carry for a small integer m: the limbs of the product and
\* the carry out of the first limb
RECURSIVE TimesLimbs(_, _, _)
TimesLimbs(limbs, m, carry) ==
    IF limbs = <<>> THEN [limbs |-> <<>>, carry |-> carry]
    ELSE LET down(r) ==
                 [limbs |-> Append(r.limbs, (limbs[Len(limbs)] * m + carry) % Limb),
                  carry |-> r.carry]
         IN down(TimesLimbs(SubSeq(limbs, 1, Len(limbs) - 1), m,
                            (limbs[Len(limbs)] * m + carry) \div Limb))

\* the number of bits of a positive integer
RECURSIVE BitLength(_)
BitLength(n) == IF n = 0 THEN 0 ELSE 1 + BitLength(n \div 2)

\* the double x * m of a double and an integer m in 1..Limb
Times(x, m) ==
    IF x.zero THEN Zero
    ELSE LET \* the product is top * 2^52 + p.limbs; sh bits are shifted out
             shifted(top, low, sh) ==
                 RoundToDouble(
                     [i \in 1..Limbs |->
                         ((IF i = 1 THEN top ELSE low[i - 1]) % (2 ^ sh))
                             * (2 ^ (LimbBits - sh))
                         + low[i] \div (2 ^ sh)],
                     x.exp + sh,
                     sh > 0 /\ low[Limbs] % (2 ^ sh) > 2 ^ (sh - 1),
                     sh > 0 /\ low[Limbs] % (2 ^ sh) = 2 ^ (sh - 1))
             product(p) == shifted(m + p.carry, p.limbs, BitLength(m + p.carry) - 1)
         IN product(TimesLimbs(x.limbs, m, 0))

\* the 53 bits of the significand, the leading bit first
SignificandBits(x) ==
    [i \in 1..(1 + Limbs * LimbBits) |->
        IF i = 1 THEN 1
        ELSE (x.limbs[(i - 2) \div LimbBits + 1]
                \div (2 ^ (LimbBits - 1 - ((i - 2) % LimbBits)))) % 2]

\* the number a bit string denotes
RECURSIVE BitsValue(_)
BitsValue(bits) ==
    IF bits = <<>> THEN 0
    ELSE 2 * BitsValue(SubSeq(bits, 1, Len(bits) - 1)) + bits[Len(bits)]

\* Math.round of a double below 2^31: the nearest integer, a half goes up
MathRound(x) ==
    IF x.zero \/ x.exp < -1 THEN 0
    ELSE IF x.exp = -1 THEN 1
    ELSE BitsValue(SubSeq(SignificandBits(x), 1, x.exp + 1))
         + SignificandBits(x)[x.exp + 2]

----------------------------------------------------------------------------
(* LoggingService.getLogs and getAnalytics *)

\* the rows SheetsService.getAllData reads from Chat_Logs: those from row 2 on
DataRows == IF logsHeader \/ logs = <<>> THEN logs ELSE Tail(logs)

\* SheetsService.getAllData on Chat_Logs through getLogs({}): the rows from
\* row 2 on, or [] when the sheet cannot be read
getLogs(rows, sheetOk) == IF sheetOk THEN rows ELSE <<>>

\* the rows of a list that satisfy a test
CountRows(rows, Test(_)) == Cardinality({i \in 1..Len(rows) : Test(rows[i])})

\* the sum of the response-time cells that are truthy numbers
RECURSIVE TotalResponseTime(_)
TotalResponseTime(rows) ==
    IF rows = <<>> THEN 0
    ELSE TotalResponseTime(Tail(rows)) + Head(rows).responseTime

\* LoggingService.getAnalytics({}), on the rows of the sheet
getAnalytics(rows, sheetOk) ==
    LET summary(logRows) ==
            [totalInteractions |-> Len(logRows),
             interactionsByType |->
                 [ty \in {logRows[i].type : i \in 1..Len(logRows)} |->
                     CountRows(logRows, LAMBDA log : log.type = ty)],
             successRate |->
                 IF Len(logRows) > 0
                 THEN MathRound(Times(Divide(
                          CountRows(logRows, LAMBDA log : log.status = "success"),
                          Len(logRows)), 100))
                 ELSE 0,
             averageResponseTime |->
                 IF Len(logRows) > 0
                 THEN MathRound(Divide(TotalResponseTime(logRows), Len(logRows)))
                 ELSE 0,
             escalationRate |->
                 IF Len(logRows) > 0
                 THEN MathRound(Times(Divide(
                          CountRows(logRows, LAMBDA log : log.type = "escalation"),
                          Len(logRows)), 100))
                 ELSE 0,
             aiUsage |->
                 [p \in {logRows[i].provider : i \in 1..Len(logRows)} \ {<<>>} |->
                     CountRows(logRows, LAMBDA log : log.provider = p)],
             topErrors |-> <<>>,
             busyHours |->
                 [h \in {MinutesOfDay(logRows[i].timestamp) \div 60 :
                            i \in 1..Len(logRows)} |->
                     CountRows(logRows,
                               LAMBDA log : MinutesOfDay(log.timestamp) \div 60 = h)],
             dailyStats |->
                 [d \in {logRows[i].timestamp \div MinutesPerDay :
                            i \in 1..Len(logRows)} |->
                     [total |-> CountRows(logRows,
                          LAMBDA log : log.timestamp \div MinutesPerDay = d),
                      successful |-> CountRows(logRows,
                          LAMBDA log : /\ log.timestamp \div MinutesPerDay = d
                                       /\ log.status = "success"),
                      escalations |-> CountRows(logRows,
                          LAMBDA log : /\ log.timestamp \div MinutesPerDay = d
                                       /\ log.type = "escalation")]]]
    IN summary(getLogs(rows, sheetOk))

----------------------------------------------------------------------------
(* The log writers and getAnalytics, called directly *)

MaxLogRows == 3     \* rows the writers append in a run of SpecAnalytics
MaxBulkRows == 40   \* rows of a log that SpecAnalytics starts from

\* texts with a card number, an e-mail address and a telephone number
TextWithCard == <<"p", "a", "g", "o", " ", "4", "1", "1", "1", " ", "1", "1", "1", "1", " ", "1", "1", "1", "1", " ", "1", "1", "1", "1">>
TextWithEmail == <<"a", "n", "a", "@", "m", "a", "i", "l", ".", "c", "o", "m">>
TextWithPhone == <<"a", "g", "e", "n", "t", "e", " ", "5", "5", "5", "-", "1", "2", "3", "-", "4", "5", "6", "7">>

\* calls of the log writers: the function and its arguments
LogCalls ==
    {[fn |-> "logInteraction", type |-> "menu_display", sessionId |-> JsUndefined,
      data |-> [success |-> TRUE, greeting |-> GreetingBusinessHours]],
     [fn |-> "logInteraction", type |-> "ai_response", sessionId |-> S1,
      data |-> [success |-> FALSE, message |-> <<"n", "o">>, provider |-> Gemini]],
     [fn |-> "logInteraction", type |-> "ai_response", sessionId |-> S1,
      data |-> [success |-> TRUE, message |-> <<"s", "i/">>, provider |-> Claude]],
     [fn |-> "logEscalation", sessionId |-> S1, reason |-> MsgAgent,
      status |-> "pending"],
     [fn |-> "logError", operation |-> "processMessage",
      message |-> <<"Cannot read properties of undefined">>,
      context |-> [sessionId |-> S1]],
     [fn |-> "logInteraction", type |-> "chat_message", sessionId |-> S1,
      data |-> [userMessage |-> TextWithCard, responseType |-> "general_ai",
                botResponse |-> [success |-> TRUE, type |-> "ai_response",
                                 message |-> TextWithEmail]]],
     [fn |-> "logEscalation", sessionId |-> S1, reason |-> TextWithPhone,
      status |-> "pending"],
     [fn |-> "logError", operation |-> "processMessage",
      message |-> TextWithEmail,
      context |-> [message |-> TextWithCard, sessionId |-> S1]]}

\* one call of a log writer on the threaded state
WriteLog(st, env, call) ==
    CASE call.fn = "logInteraction" ->
             logInteraction(st, env, call.type, call.sessionId, call.data)
      [] call.fn = "logEscalation" ->
             logEscalation(st, env, call.sessionId, call.reason, call.status)
      [] OTHER -> logError(st, env, call.operation, call.message, call.context)

\* the row a call writes to an empty log
RowOf(call) == WriteLog([logs |-> <<>>], AllUp, call).logs[1]

\* a log of MaxBulkRows rows, the first s of them menu displays, the others
\* errors
BulkLog(s) ==
    [i \in 1..MaxBulkRows |->
        IF i <= s
        THEN RowOf(CHOOSE c \in LogCalls : c.fn = "logInteraction"
                                               /\ c.type = "menu_display")
        ELSE RowOf(CHOOSE c \in LogCalls : c.fn = "logError"
                                               /\ "message" \notin DOMAIN c.context)]

LogRow(call, ms) ==
    /\ Len(logs) < MaxLogRows
    /\ logs' = WriteLog([logs |-> logs], [AllUp EXCEPT !.elapsedMs = ms], call).logs
    /\ last' = [op |-> "log"]
    /\ UNCHANGED <<logsHeader, purge, now, t0, settings, configCache, cacheExpiry, menu, props,
                   loaded, served>>

GetAnalytics(sheetOk) ==
    /\ last' = [op |-> "getAnalytics", rows |-> getLogs(DataRows, sheetOk),
                value |-> getAnalytics(DataRows, sheetOk), during |-> purge.pc]
    /\ UNCHANGED <<logsHeader, purge, now, t0, settings, configCache, cacheExpiry, menu, logs,
                   props, loaded, served>>

InitAnalytics ==
    /\ now = Monday + 9 * 60
    /\ t0 = now
    /\ settings = setupSettingsSheet
    /\ configCache = NoCache
    /\ cacheExpiry = 0
    /\ menu = <<>>
    /\ logs \in {<<>>} \cup {BulkLog(s) : s \in 0..MaxBulkRows}
    /\ props = InitialProps(<<"k", "e", "y">>)
    /\ loaded = NotLoaded
    /\ served = 0
    /\ logsHeader = TRUE
    /\ purge = NoPurge
    /\ last = [op |-> "init"]

NextAnalytics ==
    \/ \E call \in LogCalls, ms \in {0, 1} : LogRow(call, ms)
    \/ \E sheetOk \in BOOLEAN : GetAnalytics(sheetOk)

\* the log writers and the analytics summary over the rows they wrote
SpecAnalytics == InitAnalytics /\ [][NextAnalytics]_vars

----------------------------------------------------------------------------
(* AIService.generateResponse, called directly *)

\* the providers generateResponse is asked for: the two of CONFIG and two
\* that the switch does not know
AskedProviders == {Gemini, Claude, <<"openai">>, <<"GEMINI">>}

\* one call of generateResponse(provider, context)
GenerateResponse(provider, outcome) ==
    /\ served < MaxRequests
    /\ served' = served + 1
    /\ \E out \in {generateResponse(
                       [cache |-> configCache, expiry |-> cacheExpiry, logs |-> logs,
                        props |-> props, aiCalls |-> 0, httpCalls |-> 0,
                        fetched |-> <<>>, refreshCalls |-> 0, orderCalls |-> 0,
                        orderToken |-> <<>>],
                       WithAi(outcome), provider)} :
           /\ last' = [op |-> "generateResponse", provider |-> provider,
                       outcome |-> outcome, value |-> out.value,
                       fetched |-> out.st.fetched]
           /\ logs' = out.st.logs
           /\ props' = out.st.props
    /\ UNCHANGED <<logsHeader, purge, now, t0, settings, configCache, cacheExpiry, menu,
                   loaded>>

InitAI ==
    /\ now = Monday + 9 * 60
    /\ t0 = now
    /\ settings = setupSettingsSheet
    /\ configCache = NoCache
    /\ cacheExpiry = 0
    /\ menu = <<>>
    /\ logs = <<>>
    /\ props \in {[InitialProps(gemini) EXCEPT !.CLAUDE_API_KEY = claude] :
                     gemini \in {<<>>, <<"k", "e", "y">>},
                     claude \in {<<>>, <<"k", "2">>}}
    /\ loaded = NotLoaded
    /\ served = 0
    /\ logsHeader = TRUE
    /\ purge = NoPurge
    /\ last = [op |-> "init"]

NextAI == \E provider \in AskedProviders, outcome \in AIOutcomes :
              GenerateResponse(provider, outcome)

\* generateResponse for every provider, pair of stored keys and HTTP outcome
SpecAI == InitAI /\ [][NextAI]_vars

----------------------------------------------------------------------------
(* MercadoLibreService.getUserOrders and getOrderDetails, called directly *)

\* the stored expiry of a run of SpecML, in minutes from now; 0 stands for
\* a property that is not set
ExpiryOffsets == {-1, 4, 5, 6, 60}

\* one call of getOrderDetails or getUserOrders
CallOrders(fn, refresh, order) ==
    /\ served < MaxRequests
    /\ served' = served + 1
    /\ \E st \in {[cache |-> configCache, expiry |-> cacheExpiry, logs |-> logs,
                   props |-> props, aiCalls |-> 0, httpCalls |-> 0,
                   fetched |-> <<>>, refreshCalls |-> 0, orderCalls |-> 0,
                   orderToken |-> <<>>]},
          env \in {[AllUp EXCEPT !.mlRefresh = refresh, !.mlOrder = order]} :
         \E out \in {IF fn = "getOrderDetails"
                     THEN getOrderDetails(st, env, <<"123456789012">>)
                     ELSE getUserOrders(st, env, <<"77">>, EmptyObject)} :
             /\ last' = [op |-> fn, refresh |-> refresh, order |-> order,
                         stored |-> props, value |-> out.value,
                         refreshCalls |-> out.st.refreshCalls,
                         orderCalls |-> out.st.orderCalls,
                         orderToken |-> out.st.orderToken]
             /\ logs' = out.st.logs
             /\ props' = out.st.props
    /\ UNCHANGED <<logsHeader, purge, now, t0, settings, configCache, cacheExpiry, menu,
                   loaded>>

\* one call of refreshAccessToken
CallRefresh(refresh, logOk) ==
    /\ served < MaxRequests
    /\ served' = served + 1
    /\ \E out \in {refreshAccessToken(
                       [cache |-> configCache, expiry |-> cacheExpiry, logs |-> logs,
                        props |-> props, aiCalls |-> 0, httpCalls |-> 0,
                        fetched |-> <<>>, refreshCalls |-> 0, orderCalls |-> 0,
                        orderToken |-> <<>>],
                       [AllUp EXCEPT !.mlRefresh = refresh, !.logOk = logOk])} :
           /\ last' = [op |-> "refreshAccessToken", refresh |-> refresh,
                       stored |-> props, token |-> out.token,
                       refreshCalls |-> out.st.refreshCalls]
           /\ logs' = out.st.logs
           /\ props' = out.st.props
    /\ UNCHANGED <<logsHeader, purge, now, t0, settings, configCache, cacheExpiry, menu,
                   loaded>>

InitML ==
    /\ now = Monday + 9 * 60
    /\ t0 = now
    /\ settings = setupSettingsSheet
    /\ configCache = NoCache
    /\ cacheExpiry = 0
    /\ menu = <<>>
    /\ logs = <<>>
    /\ props \in {[InitialProps(<<"k", "e", "y">>) EXCEPT
                      !.ML_ACCESS_TOKEN = token,
                      !.ML_ACCESS_TOKEN_FECHA_EXPIRA = expiry,
                      !.ML_REFRESH_TOKEN = refreshToken] :
                     token \in {<<>>, <<"token0">>},
                     expiry \in {0} \cup {now + d : d \in ExpiryOffsets},
                     refreshToken \in {<<>>, <<"refresh0">>}}
    /\ loaded = NotLoaded
    /\ served = 0
    /\ logsHeader = TRUE
    /\ purge = NoPurge
    /\ last = [op |-> "init"]

NextML ==
    \/ \E fn \in {"getOrderDetails", "getUserOrders"},
          refresh \in RefreshOutcomes, order \in FetchOutcomes :
           CallOrders(fn, refresh, order)
    \/ \E refresh \in RefreshOutcomes, logOk \in BOOLEAN :
           CallRefresh(refresh, logOk)

\* the two order queries for every stored token, expiry and refresh token
\* and every outcome of the token and orders endpoints
SpecML == InitML /\ [][NextML]_vars

----------------------------------------------------------------------------
(* ChatService.determineResponseStrategy and handleOrderInquiry, called *)
(* directly                                                             *)

MaxWords == 2       \* words a message of SpecChat is put together from

\* words of the four keyword groups, in both cases, and words of none
MessageWords ==
    {<<"M", "e", "n", "u">>,
     <<"M", "E", "N", "U/">>,
     <<"o", "p", "c", "i", "o", "n", "e", "s">>,
     <<"a", "y", "u", "d", "a", " ", "d", "i", "r", "e", "c", "t", "a">>,
     <<"p", "e", "d", "i", "d", "o">>,
     <<"E", "N", "V", "I/", "O">>,
     <<"r", "a", "s", "t", "r", "e", "o">>,
     <<"p", "r", "e", "c", "i", "o">>,
     <<"S", "t", "o", "c", "k">>,
     <<"a", "g", "e", "n", "t", "e">>,
     <<"h", "a", "b", "l", "a", "r">>,
     <<"h", "o", "l", "a">>,
     <<" ">>}

\* the messages of up to n words
RECURSIVE MessagesOf(_)
MessagesOf(n) ==
    IF n = 0 THEN {<<>>}
    ELSE MessagesOf(n - 1) \cup {m \o w : m \in MessagesOf(n - 1), w \in MessageWords}

\* messages about orders: without digits, with a run of twelve digits, with
\* two runs, with a run that touches letters, with eleven digits
OrderMessages ==
    {<<"m", "i", " ", "p", "e", "d", "i", "d", "o">>,
     <<"p", "e", "d", "i", "d", "o", " ", "1", "2", "3", "4", "5", "6", "7", "8", "9", "0", "1", "2">>,
     <<"p", "e", "d", "i", "d", "o", " ", "1", "2", "3", "4", "5", "6", "7", "8", "9", "0", "1", "2", "3", " ", "y", " ", "9", "9", "9", "9", "9", "9", "9", "9", "9", "9", "9", "9">>,
     <<"p", "e", "d", "i", "d", "o", " ", "M", "L", "1", "2", "3", "4", "5", "6", "7", "8", "9", "0", "1", "2">>,
     <<"p", "e", "d", "i", "d", "o", " ", "1", "2", "3", "4", "5", "6", "7", "8", "9", "0", "1">>,
     <<"o", "r", "d", "e", "n", " ", "1", "2", "3", "4", "5", "6", "7", "8", "9", "0", "1", "2", "x", " ", "5", "5", "5", "5", "5", "5", "5", "5", "5", "5", "5", "5">>}

\* one call of determineResponseStrategy(message, context)
DetermineResponseStrategy(message) ==
    /\ served < MaxRequests
    /\ served' = served + 1
    /\ last' = [op |-> "determineResponseStrategy", message |-> message,
                strategy |-> determineResponseStrategy(message)]
    /\ UNCHANGED <<logsHeader, purge, now, t0, settings, configCache, cacheExpiry, menu,
                   logs, props, loaded>>

\* one call of handleOrderInquiry(message, sessionId, context)
HandleOrderInquiry(message, order, ai) ==
    /\ served < MaxRequests
    /\ served' = served + 1
    /\ \E out \in {handleOrderInquiry(
                       [cache |-> configCache, expiry |-> cacheExpiry, logs |-> logs,
                        props |-> props, aiCalls |-> 0, httpCalls |-> 0,
                        fetched |-> <<>>, refreshCalls |-> 0, orderCalls |-> 0,
                        orderToken |-> <<>>],
                       [AllUp EXCEPT !.mlOrder = order, !.ai = ai], message, S1)} :
           /\ last' = [op |-> "handleOrderInquiry", message |-> message,
                       order |-> order, ai |-> ai, resp |-> out.resp,
                       aiCalls |-> out.st.aiCalls, orderCalls |-> out.st.orderCalls]
           /\ logs' = out.st.logs
           /\ props' = out.st.props
    /\ UNCHANGED <<logsHeader, purge, now, t0, settings, configCache, cacheExpiry, menu,
                   loaded>>

InitChat ==
    /\ now = Monday + 9 * 60
    /\ t0 = now
    /\ settings = setupSettingsSheet
    /\ configCache = NoCache
    /\ cacheExpiry = 0
    /\ menu = <<>>
    /\ logs = <<>>
    /\ props = InitialProps(<<"k", "e", "y">>)
    /\ loaded = NotLoaded
    /\ served = 0
    /\ logsHeader = TRUE
    /\ purge = NoPurge
    /\ last = [op |-> "init"]

NextChat ==
    \/ \E message \in MessagesOf(MaxWords) \cup OrderMessages :
           DetermineResponseStrategy(message)
    \/ \E message \in OrderMessages, order \in FetchOutcomes, ai \in AIOutcomes :
           HandleOrderInquiry(message, order, ai)

\* the classifier and the order handler of ChatService on their own
SpecChat == InitChat /\ [][NextChat]_vars

----------------------------------------------------------------------------
(* sanitizeMessage and sanitizeMetadata, called directly *)

MaxPieces == 2      \* pieces a short text of SpecSanitize is put together from
PadLength == 489    \* the shortest run of letters a long text starts with
MaxPadExtra == 2    \* the longer runs: PadLength + 1 .. PadLength + MaxPadExtra

\* the pieces short texts are put together from
TextPieces ==
    {<<"4", "1", "1", "1", " ", "1", "1", "1", "1", " ", "1", "1", "1", "1", " ", "1", "1", "1", "1">>,
     <<"4", "1", "1", "1", "-", "1", "1", "1", "1", "-", "1", "1", "1", "1", "1", "1", "1", "1">>,
     <<"5", "5", "5", "-", "1", "2", "3", "-", "4", "5", "6", "7">>,
     <<"5", "5", "5", ".", "1", "2", "3", "4", "5", "6", "7">>,
     <<"a", "n", "a", "@", "m", "a", "i", "l", ".", "c", "o", "m">>,
     <<"a", ".", "b", "@", "c", "-", "d", ".", "c", "o", "|">>,
     <<"1", "2", "3", "4", "5">>,
     <<"x">>,
     <<"_">>,
     <<" ">>,
     <<".">>,
     <<"@">>,
     <<"|">>,
     <<"-">>}

\* the texts of up to n pieces
RECURSIVE TextsOf(_)
TextsOf(n) ==
    IF n = 0 THEN {<<>>}
    ELSE TextsOf(n - 1) \cup {t \o p : t \in TextsOf(n - 1), p \in TextPieces}

\* the ends of the long texts: twenty digits, an address followed by a word
\* character, a card number
LongTails ==
    {<<" ", "5", "5", "5", "1", "2", "3", "4", "5", "6", "7", "5", "5", "5", "1", "2", "3", "4", "5", "6", "7">>,
     <<" ", "a", "n", "a", "@", "m", "a", "i", "l", ".", "c", "o", "m", "_">>,
     <<" ", "4", "1", "1", "1", " ", "1", "1", "1", "1", " ", "1", "1", "1", "1", " ", "1", "1", "1", "1">>}

\* texts longer than the limit: a run of letters and one of the tails
LongTexts ==
    {[i \in 1..(PadLength + extra) |-> "x"] \o tail :
        extra \in 0..MaxPadExtra, tail \in LongTails}

\* the keys of the metadata objects of SpecSanitize
MetadataKeys ==
    {"password", "apiKey", "APIKEY", "accessToken", "userName", "clientSecret",
     "credentialId", "note"}

\* the metadata objects: every set of the keys, each key with a value
MetadataObjects ==
    {EmptyObject} \cup {[key \in keys |-> <<"v">>] : keys \in SUBSET MetadataKeys \ {{}}}

\* one call of sanitizeMessage(message), and sanitizeMessage of its result
SanitizeMessage(message) ==
    /\ served < MaxRequests
    /\ served' = served + 1
    /\ \E out \in {sanitizeMessage(message)} :
           last' = [op |-> "sanitizeMessage", arg |-> message, value |-> out,
                    again |-> sanitizeMessage(out)]
    /\ UNCHANGED <<logsHeader, purge, now, t0, settings, configCache, cacheExpiry, menu,
                   logs, props, loaded>>

\* sanitizeMetadata(metadata)
SanitizeMetadata(metadata) ==
    /\ served < MaxRequests
    /\ served' = served + 1
    /\ last' = [op |-> "sanitizeMetadata", arg |-> metadata,
                value |-> sanitizeMetadata(metadata)]
    /\ UNCHANGED <<logsHeader, purge, now, t0, settings, configCache, cacheExpiry, menu,
                   logs, props, loaded>>

InitSanitize ==
    /\ now = Monday + 9 * 60
    /\ t0 = now
    /\ settings = setupSettingsSheet
    /\ configCache = NoCache
    /\ cacheExpiry = 0
    /\ menu = <<>>
    /\ logs = <<>>
    /\ props = InitialProps(<<"k", "e", "y">>)
    /\ loaded = NotLoaded
    /\ served = 0
    /\ logsHeader = TRUE
    /\ purge = NoPurge
    /\ last = [op |-> "init"]

NextSanitize ==
    \/ \E message \in TextsOf(MaxPieces) \cup LongTexts : SanitizeMessage(message)
    \/ \E metadata \in MetadataObjects : SanitizeMetadata(metadata)

\* the two sanitizers of LoggingService on texts and objects
SpecSanitize == InitSanitize /\ [][NextSanitize]_vars

----------------------------------------------------------------------------
(* ChatService.processMessage, called directly over stored sessions *)

S2 == <<"s", "2">>
SUndefined == <<"u", "n", "d", "e", "f", "i", "n", "e", "d">>

\* a stored SESSION_<id> property
Blob(sessionId, ctx) == [key |-> sessionId, ctx |-> ctx]

\* the session blobs in the store when a run starts
SessionStores ==
    {<<>>,
     <<Blob(S1, [cart |-> <<"x">>, lastMessage |-> MsgHello,
                 lastResponse |-> EmptyObject, timestamp |-> 0])>>,
     <<Blob(S2, [cart |-> <<"y">>]), Blob(S1, [step |-> 2])>>,
     <<Blob(SUndefined, [cart |-> <<"z">>]), Blob(S2, EmptyObject)>>}

NoSession == [AllUp EXCEPT !.sessionOk = FALSE]

SessionEnvs == {AllUp, NoLog, NoProps, NoMenu, NoSession, WithAi(AiError)}

SessionMessages == {MsgMenu, MsgAgent, MsgHello, MsgOrder, TextWithCard}

\* one call of processMessage(message, sessionId)
ProcessMessage(message, sessionId, env) ==
    /\ served < MaxRequests
    /\ served' = served + 1
    /\ \E out \in {processMessage(
                       [cache |-> configCache, expiry |-> cacheExpiry, logs |-> logs,
                        props |-> props, aiCalls |-> 0, httpCalls |-> 0,
                        fetched |-> <<>>, refreshCalls |-> 0, orderCalls |-> 0,
                        orderToken |-> <<>>],
                       env, message, sessionId)} :
           /\ configCache' = out.st.cache
           /\ cacheExpiry' = out.st.expiry
           /\ logs' = out.st.logs
           /\ props' = out.st.props
           /\ last' = [op |-> "processMessage", message |-> message,
                       sessionId |-> sessionId, env |-> env, resp |-> out.resp,
                       strategy |-> out.strategy, sessions |-> props.sessions,
                       rows |-> Len(logs)]
    /\ UNCHANGED <<logsHeader, purge, now, t0, settings, menu, loaded>>

InitSession ==
    /\ now = Monday + 9 * 60
    /\ t0 = now
    /\ settings = setupSettingsSheet
    /\ configCache = NoCache
    /\ cacheExpiry = 0
    /\ menu = MenuTable
    /\ logs = <<>>
    /\ \E sessions \in SessionStores :
           props = [InitialProps(<<"k", "e", "y">>) EXCEPT
                       !.SYSTEM_INITIALIZED = TRUE, !.sessions = sessions]
    /\ loaded = NotLoaded
    /\ served = 0
    /\ logsHeader = TRUE
    /\ purge = NoPurge
    /\ last = [op |-> "init"]

NextSession ==
    \E message \in SessionMessages, sessionId \in {S1, S2, JsUndefined},
       env \in SessionEnvs :
        ProcessMessage(message, sessionId, env)

\* chat messages of several sessions processed one after the other
SpecSession == InitSession /\ [][NextSession]_vars

----------------------------------------------------------------------------
(* MenuService.processSelection, called twice and more over the same tables *)

MaxSelections == 2   \* calls of processSelection in a run of SpecSelection

\* selections of an ai, a static and an escalate option and of no option
RepeatedSelections == {<<"1">>, <<"3">>, <<"4">>, <<"9", "9">>}

SelectionEnvs == {AllUp, WithAi(AiError), NoLog}

\* one call of processSelection(selection, sessionId); prev is the call
\* before it
ProcessSelection(selection, sessionId, env) ==
    /\ served < MaxSelections
    /\ served' = served + 1
    /\ \E out \in {processSelection(
                       [cache |-> configCache, expiry |-> cacheExpiry, logs |-> logs,
                        props |-> props, aiCalls |-> 0, httpCalls |-> 0,
                        fetched |-> <<>>, refreshCalls |-> 0, orderCalls |-> 0,
                        orderToken |-> <<>>],
                       env, selection, sessionId)} :
           /\ configCache' = out.st.cache
           /\ cacheExpiry' = out.st.expiry
           /\ logs' = out.st.logs
           /\ props' = out.st.props
           /\ last' = [op |-> "processSelection", selection |-> selection,
                       sessionId |-> sessionId, env |-> env, resp |-> out.resp,
                       at |-> now, rows |-> Len(logs),
                       prev |-> IF last.op = "processSelection"
                                THEN [last EXCEPT !.prev = [op |-> "none"]]
                                ELSE [op |-> "none"]]
    /\ UNCHANGED <<logsHeader, purge, now, t0, settings, menu, loaded>>

\* Monday 18:00, the last minute of the business hours
InitSelection ==
    /\ now = Monday + 18 * 60
    /\ t0 = now
    /\ settings = setupSettingsSheet
    /\ configCache = NoCache
    /\ cacheExpiry = 0
    /\ menu = setupMenuSheet
    /\ logs = <<>>
    /\ props = [InitialProps(<<"k", "e", "y">>) EXCEPT !.SYSTEM_INITIALIZED = TRUE]
    /\ loaded = NotLoaded
    /\ served = 0
    /\ logsHeader = TRUE
    /\ purge = NoPurge
    /\ last = [op |-> "init"]

NextSelection ==
    \/ Tick(1, MaxElapsedReq)
    \/ \E selection \in RepeatedSelections, env \in SelectionEnvs :
           ProcessSelection(selection, S1, env)

\* selections made one after the other under a moving clock, the tables
\* unchanged
SpecSelection == InitSelection /\ [][NextSelection]_vars

----------------------------------------------------------------------------
(* The web entry points doGet and doPost *)

\* the events of a request: a GET with its query parameters, a POST of JSON,
\* of a text that is not JSON, of a form, and an event that is null
EventsOf(params) ==
    {[parameter |-> params],
     [parameter |-> EmptyObject,
      postData |-> [type |-> "application/json", contents |-> [json |-> params]]],
     [parameter |-> EmptyObject,
      postData |-> [type |-> "application/json", contents |-> [text |-> <<"{">>]]],
     [parameter |-> params,
      postData |-> [type |-> "application/x-www-form-urlencoded",
                    contents |-> [text |-> <<"a", "=", "1">>]]],
     JsNull}

WebRequests ==
    {Request([action |-> <<"getMenu">>], e) : e \in {AllUp, NoMenu, NoLog, NoProps}}
    \cup {Request(Selection(n), AllUp) : n \in {<<"3">>, <<"4">>, <<"9", "9">>}}
    \cup {Request(Message(m), AllUp) : m \in {MsgMenu, MsgOrder, MsgAgent}}
    \cup {Request(JsNull, AllUp)}

\* one web request served by doGet or doPost
Serve(entry, e, env) ==
    /\ served < MaxRequests
    /\ served' = served + 1
    /\ \E route \in {IF entry = "doGet" THEN doGet(e) ELSE doPost(e)} :
       \E out \in {IF route.call
                   THEN handleChatbotRequest(
                            [cache |-> configCache, expiry |-> cacheExpiry,
                             logs |-> logs, props |-> props, aiCalls |-> 0,
                             httpCalls |-> 0, fetched |-> <<>>, refreshCalls |-> 0,
                             orderCalls |-> 0, orderToken |-> <<>>],
                            env, route.params)
                   ELSE [st |-> [cache |-> configCache, expiry |-> cacheExpiry,
                                 logs |-> logs, props |-> props],
                         resp |-> EmptyObject, raised |-> TRUE]} :
           /\ configCache' = out.st.cache
           /\ cacheExpiry' = out.st.expiry
           /\ logs' = out.st.logs
           /\ props' = out.st.props
           /\ last' = [op |-> entry, e |-> e, env |-> env,
                       output |-> WebOutput(route, out.raised, out.resp)]
    /\ UNCHANGED <<logsHeader, purge, now, t0, settings, menu, loaded>>

NextWeb ==
    \/ Tick(1, MaxElapsedReq)
    \/ \E entry \in {"doGet", "doPost"}, r \in WebRequests :
           \E e \in EventsOf(r.params) : Serve(entry, e, r.env)

\* web requests served one after the other, from the state the requests of
\* Spec start in
SpecWeb == Init /\ [][NextWeb]_vars

----------------------------------------------------------------------------
(* Requests served over a Chat_Logs sheet that holds rows of earlier runs *)

EarlierRows ==
    <<[timestamp |-> 0, session |-> S1, type |-> "menu_selection",
       user |-> <<"3">>, bot |-> <<>>, provider |-> <<>>, responseTime |-> 0,
       status |-> "success",
       metadata |-> [selection |-> <<"3">>,
                     option |-> <<"Politica de devoluciones">>]],
      [timestamp |-> 0, session |-> <<"system">>, type |-> "error",
       user |-> <<"processMessage">>, bot |-> <<"ML API error">>,
       provider |-> <<>>, responseTime |-> 0, status |-> "error",
       metadata |-> [context |-> EmptyObject, operation |-> <<"processMessage">>]]>>

InitLog ==
    /\ now = Monday + 8 * 60 + 59
    /\ t0 = now
    /\ settings = setupSettingsSheet
    /\ configCache = NoCache
    /\ cacheExpiry = 0
    /\ menu = MenuTable
    /\ logs \in {<<>>, EarlierRows}
    /\ props = [InitialProps(<<"k", "e", "y">>) EXCEPT !.SYSTEM_INITIALIZED = TRUE]
    /\ loaded = NotLoaded
    /\ served = 0
    /\ logsHeader = TRUE
    /\ purge = NoPurge
    /\ last = [op |-> "init"]

\* the requests of Spec over a log that may hold rows already
SpecLog == InitLog /\ [][Next]_vars

----------------------------------------------------------------------------
(* getMenu, processSelection and processMessage with the log sink up and down *)

\* the calls: the function, its input and the services behind it
SinkCalls ==
    {[fn |-> "getMenu", input |-> JsUndefined, env |-> e] :
        e \in {AllUp, NoSettings, NoMenu}}
    \cup {[fn |-> "processSelection", input |-> n, env |-> e] :
             n \in {<<"1">>, <<"3">>, <<"4">>, <<"9", "9">>, JsUndefined},
             e \in {AllUp, WithAi(AiError)}}
    \cup {[fn |-> "processMessage", input |-> m, env |-> e] :
             m \in {MsgMenu, MsgAgent, MsgHello, MsgOrder, JsUndefined},
             e \in {AllUp, WithAi(Throws)}}

\* one call with the log sink up or down; answers holds what the call returns
\* in either case, from the same state
CallWithSink(call, logOk) ==
    /\ served < MaxRequests
    /\ served' = served + 1
    /\ \E outs \in {[ok \in BOOLEAN |->
                        CASE call.fn = "getMenu" ->
                                 getMenu([cache |-> configCache, expiry |-> cacheExpiry,
                                          logs |-> logs, props |-> props, aiCalls |-> 0,
                                          httpCalls |-> 0, fetched |-> <<>>,
                                          refreshCalls |-> 0, orderCalls |-> 0,
                                          orderToken |-> <<>>],
                                         [call.env EXCEPT !.logOk = ok])
                          [] call.fn = "processSelection" ->
                                 processSelection(
                                     [cache |-> configCache, expiry |-> cacheExpiry,
                                      logs |-> logs, props |-> props, aiCalls |-> 0,
                                      httpCalls |-> 0, fetched |-> <<>>,
                                      refreshCalls |-> 0, orderCalls |-> 0,
                                      orderToken |-> <<>>],
                                     [call.env EXCEPT !.logOk = ok], call.input, S1)
                          [] OTHER ->
                                 processMessage(
                                     [cache |-> configCache, expiry |-> cacheExpiry,
                                      logs |-> logs, props |-> props, aiCalls |-> 0,
                                      httpCalls |-> 0, fetched |-> <<>>,
                                      refreshCalls |-> 0, orderCalls |-> 0,
                                      orderToken |-> <<>>],
                                     [call.env EXCEPT !.logOk = ok], call.input, S1)]} :
           /\ configCache' = outs[logOk].st.cache
           /\ cacheExpiry' = outs[logOk].st.expiry
           /\ logs' = outs[logOk].st.logs
           /\ props' = outs[logOk].st.props
           /\ last' = [op |-> call.fn, input |-> call.input, env |-> call.env,
                       logOk |-> logOk, rows |-> Len(logs),
                       answers |-> [ok \in BOOLEAN |-> outs[ok].resp]]
    /\ UNCHANGED <<logsHeader, purge, now, t0, settings, menu, loaded>>

NextSink ==
    \/ Tick(1, MaxElapsedReq)
    \/ \E call \in SinkCalls, logOk \in BOOLEAN : CallWithSink(call, logOk)

\* calls of the three functions, the appends to Chat_Logs succeeding or failing
SpecSink == InitLog /\ [][NextSink]_vars

----------------------------------------------------------------------------
(* Requests of a deployment from its first request on *)

MaxInitRequests == 2   \* requests served in a run of SpecInit

InitRequests ==
    {Request(p, e) :
        p \in {[action |-> <<"getMenu">>], Selection(<<"3">>), Message(MsgAgent), JsNull},
        e \in {AllUp, NoMenu, NoLog, NoSettings, NoProps}}

\* one request served by handleChatbotRequest; initialized is the flag before
\* the request and prev the request before it
HandleRequestFrom(params, env) ==
    /\ served < MaxInitRequests
    /\ served' = served + 1
    /\ \E out \in {handleChatbotRequest(
                       [cache |-> configCache, expiry |-> cacheExpiry, logs |-> logs,
                        props |-> props, aiCalls |-> 0, httpCalls |-> 0,
                        fetched |-> <<>>, refreshCalls |-> 0, orderCalls |-> 0,
                        orderToken |-> <<>>],
                       env, params)} :
           /\ configCache' = out.st.cache
           /\ cacheExpiry' = out.st.expiry
           /\ logs' = out.st.logs
           /\ props' = out.st.props
           /\ last' = [op |-> "handleChatbotRequest", params |-> params, env |-> env,
                       resp |-> out.resp, raised |-> out.raised,
                       dispatched |-> out.dispatched,
                       initialized |-> props.SYSTEM_INITIALIZED,
                       rows |-> Len(logs),
                       prev |-> IF last.op = "handleChatbotRequest"
                                THEN [last EXCEPT !.prev = [op |-> "none"]]
                                ELSE [op |-> "none"]]
    /\ UNCHANGED <<logsHeader, purge, now, t0, settings, menu, loaded>>

NextInit ==
    \E r \in InitRequests : HandleRequestFrom(r.params, r.env)

\* the first requests of a deployment, the sheets and the property store
\* reachable or not at each of them
SpecInit == Init /\ [][NextInit]_vars

----------------------------------------------------------------------------
(* LoggingService.cleanupOldLogs, its three accesses to the sheet taken one *)
(* at a time while other requests append rows and read the log             *)

\* the ages, in minutes, of the rows of the log a run starts from
RowAges == {0, MinutesPerDay, MinutesPerDay + 1, 2 * MinutesPerDay}

\* the header row written by SheetsService.setupLogsSheet
LogsHeaderRow == [header |-> <<"Timestamp">>]

\* sheet.getDataRange().getValues(): every row of the sheet
AllRows == IF logsHeader THEN <<LogsHeaderRow>> \o logs ELSE logs

\* rowsToKeep of cleanupOldLogs: data[0] and the later rows that are not
\* older than the cutoff; the range of an empty sheet is one blank cell
rowsToKeep(data, cutoffDate) ==
    IF data = <<>> THEN <<>>
    ELSE <<data[1]>> \o SelectSeq(Tail(data), LAMBDA row : row.timestamp >= cutoffDate)

\* getRange(1, 1, rows.length, ...).setValues(rows) on a sheet holding data
setValues(data, rows) == rows \o SubSeq(data, Len(rows) + 1, Len(data))

\* cleanupOldLogs up to its read of the sheet (lines 343-357); a sheet that
\* cannot be opened ends the call in its catch block
CleanupRead(daysToKeep, sheetOk) ==
    /\ purge.pc = "idle"
    /\ IF sheetOk
       THEN /\ purge' = [pc |-> "read",
                         cutoffDate |-> now - daysToKeep * MinutesPerDay,
                         rowsToKeep |-> rowsToKeep(AllRows,
                                            now - daysToKeep * MinutesPerDay),
                         before |-> logs, appended |-> <<>>]
            /\ last' = [op |-> "cleanupRead", daysToKeep |-> daysToKeep]
       ELSE /\ purge' = purge
            /\ last' = [op |-> "cleanupOldLogs", completed |-> FALSE]
    /\ UNCHANGED <<now, t0, settings, configCache, cacheExpiry, menu, logs,
                   props, loaded, served, logsHeader>>

\* sheet.clear() (line 360)
CleanupClear ==
    /\ purge.pc = "read"
    /\ logs' = <<>>
    /\ logsHeader' = FALSE
    /\ purge' = [purge EXCEPT !.pc = "cleared"]
    /\ last' = [op |-> "cleanupClear"]
    /\ UNCHANGED <<now, t0, settings, configCache, cacheExpiry, menu, props,
                   loaded, served>>

\* the setValues of the kept rows (lines 361-364)
CleanupWrite ==
    /\ purge.pc = "cleared"
    /\ \E data \in {setValues(AllRows, purge.rowsToKeep)} :
           /\ logsHeader' = (data # <<>> /\ data[1] = LogsHeaderRow)
           /\ logs' = IF data # <<>> /\ data[1] = LogsHeaderRow THEN Tail(data) ELSE data
    /\ purge' = NoPurge
    /\ last' = [op |-> "cleanupOldLogs", completed |-> TRUE,
                cutoffDate |-> purge.cutoffDate, before |-> purge.before,
                appended |-> purge.appended]
    /\ UNCHANGED <<now, t0, settings, configCache, cacheExpiry, menu, props,
                   loaded, served>>

\* another request writes a row through SheetsService.appendData
AppendWhilePurging(call) ==
    /\ served < MaxRequests
    /\ \E st \in {WriteLog([logs |-> logs], AllUp, call)} :
           /\ logs' = st.logs
           /\ purge' = IF purge.pc = "idle" THEN purge
                       ELSE [purge EXCEPT !.appended = Append(@, st.logs[Len(st.logs)])]
    /\ served' = served + 1
    /\ last' = [op |-> "log"]
    /\ UNCHANGED <<now, t0, settings, configCache, cacheExpiry, menu, props,
                   loaded, logsHeader>>

\* a row of the given age
AgedRow(age) ==
    [RowOf(CHOOSE c \in LogCalls : c.fn = "logEscalation") EXCEPT
        !.timestamp = now - age]

InitCleanup ==
    /\ now = Monday + 7 * MinutesPerDay
    /\ t0 = now
    /\ settings = setupSettingsSheet
    /\ configCache = NoCache
    /\ cacheExpiry = 0
    /\ menu = <<>>
    /\ \E n \in 0..MaxLogRows : \E ages \in [1..n -> RowAges] :
           /\ \A i \in 1..(n - 1) : ages[i] >= ages[i + 1]
           /\ logs = [i \in 1..n |-> AgedRow(ages[i])]
    /\ props = InitialProps(<<"k", "e", "y">>)
    /\ loaded = NotLoaded
    /\ served = 0
    /\ logsHeader = TRUE
    /\ purge = NoPurge
    /\ last = [op |-> "init"]

NextCleanup ==
    \/ \E daysToKeep \in {1, 2}, sheetOk \in BOOLEAN : CleanupRead(daysToKeep, sheetOk)
    \/ CleanupClear
    \/ CleanupWrite
    \/ \E call \in LogCalls : AppendWhilePurging(call)
    \/ GetAnalytics(TRUE)

\* a purge of the log while other requests log and read
SpecCleanup == InitCleanup /\ [][NextCleanup]_vars

----------------------------------------------------------------------------
(* Claims about business hours and the settings cache *)

\* C7: isWithinBusinessHours(t, schedule) is true exactly when the entry of
\* t's weekday is open and first <= minutes-of-day(t) <= final, both ends
\* included, and false on a closed or missing weekday; with 09:00-18:00 it is
\* false at 08:59, true at 09:00 and at 18:00, false at 18:01.
BusinessHoursInclusive ==
    last.op = "isWithinBusinessHours" =>
        LET day == (now \div 1440) % 7
            minute == now % 1440
        IN /\ last.result = (/\ day \in last.input.openDays
                             /\ last.input.first <= minute
                             /\ minute <= last.input.final)
           /\ (last.input.rows = setupSettingsSheet /\ day = 1) =>
                  /\ minute = 539 => ~last.result
                  /\ minute = 540 => last.result
                  /\ minute = 1080 => last.result
                  /\ minute = 1081 => ~last.result

\* C7 witness: Monday 18:00 against 09:00-18:00 is answered in hours
BusinessHoursClosingMinute ==
    /\ last.op = "isWithinBusinessHours"
    /\ last.input.rows = setupSettingsSheet
    /\ now = Monday + 1080
    /\ last.result

\* a step of `get` (the clock stands still and the sheet is untouched)
IsGetStep == last'.op = "get" /\ now' = now /\ settings' = settings

ValueIn(cfg, key, defaultValue) ==
    IF key \in DOMAIN cfg THEN cfg[key] ELSE defaultValue

\* C8: after a successful load of the settings table at T, a get before
\* T + 5 minutes with no set in between returns the value loaded at T without
\* reading the table, whatever was edited by hand since; a get at or after
\* T + 5 minutes reads the table again and returns its current value.
CacheServesFiveMinutes ==
    [][(IsGetStep /\ loaded.some) =>
          IF now < loaded.at + 5
          THEN /\ ~last'.read
               /\ last'.value = ValueIn(loaded.cfg, last'.key, last'.defaultValue)
          ELSE /\ last'.read
               /\ last'.ok =>
                    last'.value = ValueIn(ConfigOfRows(settings), last'.key,
                                          last'.defaultValue)]_vars

\* C8 witness: a get answered from the cache with a value the table no
\* longer holds
CacheServedStaleValue ==
    /\ last.op = "get"
    /\ ~last.read
    /\ loaded.some
    /\ now > loaded.at
    /\ last.value # ValueIn(ConfigOfRows(settings), last.key, last.defaultValue)

\* C9: after set(k, v) the next get(k) returns v; stated for a working sheet
\* and for the values v that the coercion of getConfig leaves as they are.
SetGetRoundTrip ==
    [][(/\ last.op = "set"
        /\ last.ok
        /\ parseConfigValue(last.value) = last.value
        /\ IsGetStep
        /\ last'.ok
        /\ last'.key = last.key) => last'.value = last.value]_vars

\* a step of a getter of ConfigService
IsGetterStep ==
    /\ last'.op \in GetterNames \cup {"get"}
    /\ now' = now
    /\ settings' = settings

DefaultScheduleMonToFri(bh) ==
    \A d \in 0..6 :
        /\ bh.schedule[d].open = (d \in 1..5)
        /\ bh.schedule[d].open =>
               /\ bh.schedule[d].start = Str(T0900)
               /\ bh.schedule[d].end = Str(T1800)

\* what each getter answers from the hardcoded default configuration
AnswersDefaults(l) ==
    CASE l.op = "get" ->
             l.value = (IF l.key = "footer_message" THEN Str(FooterMessage)
                        ELSE l.defaultValue)
      [] l.op = "getBusinessHours" -> DefaultScheduleMonToFri(l.value)
      [] l.op = "getGreetings" ->
             /\ l.value.businessHours = Str(GreetingBusinessHours)
             /\ l.value.afterHours = Str(GreetingAfterHours)
      [] l.op = "getFooterMessage" -> l.value = Str(FooterMessage)
      [] l.op = "getAIConfig" ->
             /\ l.value.defaultProvider = Str(Gemini)
             /\ l.value.maxTokens = Num(500)
             /\ l.value.timeout = Num(30000)
      [] OTHER ->
             /\ DOMAIN l.value = {"business_hours_start", "business_hours_end",
                                  "business_days", "greeting_business_hours",
                                  "greeting_after_hours", "footer_message",
                                  "max_ai_tokens", "default_ai_provider",
                                  "escalation_timeout", "session_timeout"}
             /\ l.value.business_hours_start = Str(T0900)
             /\ l.value.business_hours_end = Str(T1800)
             /\ l.value.footer_message = Str(FooterMessage)
             /\ l.value.max_ai_tokens = Num(500)

\* C10: when the read of the settings table fails, getConfig, get,
\* getBusinessHours, getGreetings, getFooterMessage and getAIConfig answer
\* from the hardcoded defaults, whatever the cache holds, and the cache
\* fields stay as they were.
FailedReadAnswersDefaults ==
    [][(IsGetterStep /\ last'.read /\ ~last'.ok) =>
          /\ AnswersDefaults(last')
          /\ configCache' = configCache
          /\ cacheExpiry' = cacheExpiry]_vars

\* C10 witness: a failed read answered with the default footer while an
\* expired cache still holds another footer
FailedReadOverStaleCache ==
    /\ last.op = "getFooterMessage"
    /\ last.read
    /\ ~last.ok
    /\ last.value = Str(FooterMessage)
    /\ ~configCache.isNull
    /\ configCache.cfg["footer_message"] # Str(FooterMessage)

----------------------------------------------------------------------------
(* Claims about the requests *)

\* a step that serves one request
IsRequestStep == served' = served + 1 /\ last'.op = "handleChatbotRequest"

\* the rows a step appends to Chat_Logs
RowsAppended == SubSeq(logs', Len(logs) + 1, Len(logs'))

\* the request fails before it is dispatched: the property store is down,
\* the first-run initialization cannot open a sheet, or params is null
FailsBeforeDispatch(params, env) ==
    \/ ~env.propsOk
    \/ ~props.SYSTEM_INITIALIZED /\ ~(env.menuOk /\ env.logOk /\ env.settingsOk)
    \/ params = JsNull

ResponseHasSuccessAndTimestamp ==
    last.op = "handleChatbotRequest" =>
        /\ "success" \in DOMAIN last.resp
        /\ last.resp.success \in BOOLEAN
        /\ "timestamp" \in DOMAIN last.resp

\* the active options a selection is matched against, and the first match
ActiveOptions(env) ==
    SelectSeq(getMenuConfig(menu, env.menuOk), LAMBDA option : option.active)

Matches(params, env) ==
    {i \in 1..Len(ActiveOptions(env)) :
        NumberToString(ActiveOptions(env)[i].number) = Field(params, "userInput")}

Matched(params, env) ==
    ActiveOptions(env)[CHOOSE i \in Matches(params, env) :
                           \A j \in Matches(params, env) : i <= j]

\* a step of processSelection on the selection of the request
IsSelectionStep == IsRequestStep /\ last'.dispatched = "processSelection"

\* C3: for every selection that matches no active option, a missing one
\* included, processSelection answers success = false with showMenu = true
\* and appends no row to Chat_Logs.
UnmatchedSelectionLogsNothing ==
    [][(IsSelectionStep /\ Matches(last'.params, last'.env) = {}) =>
          /\ last'.resp.success = FALSE
          /\ last'.resp.showMenu = TRUE
          /\ logs' = logs]_vars

\* the AI call of an ai option succeeds: the provider's key is stored and
\* the provider answers 200 with a text
AiSucceeds(option, env) ==
    /\ NonEmpty(IF OrStr(option.aiProvider, Gemini) = Gemini
                THEN props.GEMINI_API_KEY ELSE props.CLAUDE_API_KEY)
    /\ OrStr(option.aiProvider, Gemini) \in {Gemini, Claude}
    /\ env.ai.kind = "resp"
    /\ env.ai.code = 200
    /\ NonEmpty(env.ai.text)

ResponseRowType(option, env) ==
    CASE option.responseType = STATIC -> "static_response"
      [] option.responseType = ESCALATE -> "escalation"
      [] option.responseType = AI ->
             IF AiSucceeds(option, env) THEN "ai_response" ELSE "static_response"

\* C4: when processSelection matches an active option (static, ai or
\* escalate) and the log sink works, it appends a menu_selection row and
\* then one response row, and nothing else: static_response for a static
\* option, ai_response for an ai option whose AI call succeeded, escalation
\* for an escalate option.
SelectionLogsSelectionThenResponse ==
    [][(/\ IsSelectionStep
        /\ last'.env.logOk
        /\ Matches(last'.params, last'.env) # {}
        /\ Matched(last'.params, last'.env).responseType \in {STATIC, AI, ESCALATE})
       =>
          /\ SubSeq(logs', 1, Len(logs)) = logs
          /\ Len(RowsAppended) = 2
          /\ RowsAppended[1].type = "menu_selection"
          /\ RowsAppended[2].type =
                 ResponseRowType(Matched(last'.params, last'.env), last'.env)]_vars

\* C4 witness: option 1 answered by the provider, logged as a selection and
\* an ai_response
AiSelectionLogged ==
    /\ last.op = "handleChatbotRequest"
    /\ last.dispatched = "processSelection"
    /\ last.resp.success
    /\ last.resp.type = <<"ai">>
    /\ Len(logs) >= 2
    /\ logs[Len(logs) - 1].type = "menu_selection"
    /\ logs[Len(logs)].type = "ai_response"

IsEscalationStep ==
    \/ /\ IsSelectionStep
       /\ Matches(last'.params, last'.env) # {}
       /\ Matched(last'.params, last'.env).responseType = ESCALATE
    \/ /\ IsRequestStep
       /\ last'.dispatched = "processMessage"
       /\ Field(last'.params, "userInput") # JsUndefined
       /\ determineResponseStrategy(last'.params.userInput).type = "escalation"

EscalationRows == SelectSeq(RowsAppended, LAMBDA row : row.type = "escalation")

StatusOf(businessHours) == IF businessHours THEN "pending" ELSE "after_hours"

\* C6, as written: every escalation, from the menu or from the chat, answers
\* with type escalation and showMenu = false and writes exactly one
\* escalation row, whose status is pending exactly when the response's
\* businessHours is true and after_hours exactly when it is false.
EscalationAlwaysLoggedOnce ==
    [][IsEscalationStep =>
          /\ last'.resp.type = <<"escalation">>
          /\ last'.resp.showMenu = FALSE
          /\ Len(EscalationRows) = 1
          /\ EscalationRows[1].status = StatusOf(last'.resp.businessHours)]_vars

\* C6, amended: every escalation answers with type escalation and
\* showMenu = false; it writes exactly one escalation row when the log sink
\* works and none when the append fails; the row written has status pending
\* exactly when the response's businessHours is true and after_hours exactly
\* when it is false.
EscalationLoggedOnceWhenSinkWorks ==
    [][IsEscalationStep =>
          /\ last'.resp.type = <<"escalation">>
          /\ last'.resp.showMenu = FALSE
          /\ last'.resp.businessHours \in BOOLEAN
          /\ Len(EscalationRows) = (IF last'.env.logOk THEN 1 ELSE 0)
          /\ \A i \in 1..Len(EscalationRows) :
                 EscalationRows[i].status = StatusOf(last'.resp.businessHours)]_vars

\* C6 witness: a chat message asking for an agent at 09:00 on Monday is
\* logged as one pending escalation
ChatEscalationPending ==
    /\ last.op = "handleChatbotRequest"
    /\ last.dispatched = "processMessage"
    /\ last.resp.success
    /\ "type" \in DOMAIN last.resp
    /\ last.resp.type = <<"escalation">>
    /\ last.resp.businessHours
    /\ now = Monday + 9 * 60
    /\ Len(SelectSeq(logs, LAMBDA row : row.type = "escalation")) = 1
    /\ \E i \in 1..Len(logs) : logs[i].type = "escalation" /\ logs[i].status = "pending"

----------------------------------------------------------------------------
(* Claims about the logs *)

\* the integer nearest to num / den, a half going up
Round(num, den) == (2 * num + den) \div (2 * den)

\* the rows a getAnalytics step summarized
SuccessRows == CountRows(last.rows, LAMBDA log : log.status = "success")
EscalationLogRows == CountRows(last.rows, LAMBDA log : log.type = "escalation")

\* C11: for every list of log rows getAnalytics returns totalInteractions =
\* the number of rows, successRate = round(100 * success rows / total),
\* escalationRate = round(100 * escalation rows / total) and aiUsage counting
\* the rows of each non-empty provider; the rates and the average response
\* time are 0 when there are no rows
AnalyticsRatesAreRoundedShares ==
    last.op = "getAnalytics" =>
        /\ last.value.totalInteractions = Len(last.rows)
        /\ last.value.successRate =
               (IF last.rows = <<>> THEN 0 ELSE Round(100 * SuccessRows, Len(last.rows)))
        /\ last.value.escalationRate =
               (IF last.rows = <<>> THEN 0
                ELSE Round(100 * EscalationLogRows, Len(last.rows)))
        /\ last.value.aiUsage =
               [p \in {last.rows[i].provider : i \in 1..Len(last.rows)} \ {<<>>} |->
                   CountRows(last.rows, LAMBDA log : log.provider = p)]
        /\ last.rows = <<>> => last.value.averageResponseTime = 0

\* the three rows (menu_display, success), (escalation, pending),
\* (ai_response, error, gemini) are summarized as 3, 33, 33 and {gemini: 1}
AnalyticsOfThreeRows ==
    /\ last.op = "getAnalytics"
    /\ Len(last.rows) = 3
    /\ last.rows[1].type = "menu_display" /\ last.rows[1].status = "success"
    /\ last.rows[2].type = "escalation" /\ last.rows[2].status = "pending"
    /\ last.rows[3].type = "ai_response" /\ last.rows[3].status = "error"
    /\ last.rows[3].provider = Gemini
    => /\ last.value.totalInteractions = 3
       /\ last.value.successRate = 33
       /\ last.value.escalationRate = 33
       /\ last.value.aiUsage = [p \in {Gemini} |-> 1]

\* C12: cleanupOldLogs(n) leaves the header row followed by exactly the rows
\* whose timestamp is >= now - n days, in their order, as one atomic step:
\* no other operation observes the table between the clearing and the
\* rewrite, and no row another request appends while the purge runs is lost
CleanupIsOneAtomicRewrite ==
    /\ last.op = "cleanupOldLogs" /\ last.completed =>
           /\ logsHeader
           /\ logs = SelectSeq(last.before \o last.appended,
                               LAMBDA row : row.timestamp >= last.cutoffDate)
    /\ last.op = "getAnalytics" => last.during # "cleared"

\* a purge that no other request interleaves with keeps the header and the
\* rows that are not older than the cutoff, in their order
UndisturbedCleanupKeepsRecentRows ==
    last.op = "cleanupOldLogs" /\ last.completed /\ last.appended = <<>> =>
        /\ logsHeader
        /\ logs = SelectSeq(last.before, LAMBDA row : row.timestamp >= last.cutoffDate)

\* a text holds a match of one of the three patterns of sanitizeMessage
HasSensitiveText(s) ==
    \E pattern \in {"card", "email", "phone"}, i \in 1..Len(s) :
        MatchEnd(pattern, s, i) > 0

\* the texts of a row that come from the arguments of the writer: the user
\* and bot columns, and the texts inside the metadata column
RowTexts(row) ==
    {row.user, row.bot}
        \cup CASE row.type = "chat_message" ->
                      {row.metadata.userMessage, row.metadata.botResponse.message}
               [] row.type = "escalation" -> {row.metadata.escalationReason}
               [] row.type = "error" -> {Field(row.metadata.context, "message")}
               [] OTHER -> {}

\* C13: no column of a row of Chat_Logs, the metadata column included, holds
\* an unmasked card number, e-mail address or telephone number of the texts
\* the writer was called with. The code masks the user and bot columns of
\* logInteraction and the reason column of logEscalation only: the metadata
\* column holds the raw userMessage, botResponse and escalation reason, and
\* logError writes error.message and the context as they are.
NoSensitiveTextInLogs ==
    \A i \in 1..Len(logs) : \A text \in RowTexts(logs[i]) : ~HasSensitiveText(text)

\* the columns sanitizeMessage is applied to are masked
MaskedColumnsAreMasked ==
    \A i \in 1..Len(logs) :
        logs[i].type # "error" =>
            ~HasSensitiveText(logs[i].user) /\ ~HasSensitiveText(logs[i].bot)

\* a chat message with a card number was logged: its user column is masked
ChatMessageWithCardLogged ==
    \E i \in 1..Len(logs) :
        /\ logs[i].type = "chat_message"
        /\ logs[i].user = <<"p", "a", "g", "o", " ">> \o CardMask
        /\ logs[i].bot = EmailMask

\* the words of the redaction rule, in lower case
SensitiveWords ==
    {<<"p", "a", "s", "s", "w", "o", "r", "d">>, <<"t", "o", "k", "e", "n">>,
     <<"a", "p", "i", "k", "e", "y">>, <<"s", "e", "c", "r", "e", "t">>,
     <<"c", "r", "e", "d", "e", "n", "t", "i", "a", "l">>}

\* a key whose name, whatever its case, contains one of the words
NameIsSensitive(key) ==
    \E word \in SensitiveWords : Includes(ToLowerCase(KeyText[key]), word)

\* C14: sanitizeMetadata puts the marker in place of the value of every key
\* whose name, compared without regard to case, contains password, token,
\* apikey, secret or credential, and leaves the value of every other key.
\* The code compares the lower-cased name with the literal 'apiKey', which
\* no lower-cased name contains: apiKey and APIKEY keep their values.
SensitiveKeysAreRedacted ==
    last.op = "sanitizeMetadata" =>
        /\ DOMAIN last.value = DOMAIN last.arg
        /\ last.arg # EmptyObject =>
               \A key \in DOMAIN last.arg :
                   last.value[key] = IF NameIsSensitive(key) THEN Redacted
                                     ELSE last.arg[key]

\* the keys that do not contain apikey are treated as the rule says
KeysOtherThanApiKeyAreRedacted ==
    last.op = "sanitizeMetadata" /\ last.arg # EmptyObject =>
        \A key \in DOMAIN last.arg \ {"apiKey", "APIKEY"} :
            last.value[key] = IF NameIsSensitive(key) THEN Redacted
                              ELSE last.arg[key]

\* an object with the keys accessToken, userName and apiKey was sanitized
TokenAndApiKeySanitized ==
    /\ last.op = "sanitizeMetadata"
    /\ DOMAIN last.arg = {"accessToken", "userName", "apiKey"}
    /\ last.value.accessToken = Redacted
    /\ last.value.userName = <<"v">>

\* C15: sanitizeMessage applied to its own result changes nothing, and its
\* result holds no card number, e-mail address or telephone number, also
\* when the text is longer than 500 characters. The cut to 500 characters
\* comes after the masks: of twenty digits behind 489 letters and a blank
\* it leaves ten digits at the end, which a second call masks.
SanitizeMessageIsIdempotent ==
    last.op = "sanitizeMessage" =>
        /\ last.again = last.value
        /\ ~HasSensitiveText(last.value)

\* texts that the cut does not shorten: the claim holds for them
UncutTextsAreMaskedOnce ==
    last.op = "sanitizeMessage" /\ Len(last.value) < MaxLoggedLength =>
        /\ last.again = last.value
        /\ ~HasSensitiveText(last.value)

\* a text with a telephone number and an address was masked in one call
PhoneAndEmailMasked ==
    /\ last.op = "sanitizeMessage"
    /\ HasSensitiveText(last.arg)
    /\ last.value = EmailMask \o PhoneMask
    /\ last.again = last.value

----------------------------------------------------------------------------
(* Claims about AIService *)

\* the key stored for a provider, and the endpoint of a provider
KeyOf(provider) ==
    IF provider = Gemini THEN props.GEMINI_API_KEY ELSE props.CLAUDE_API_KEY
EndpointOf(provider) == IF provider = Gemini THEN GeminiEndpoint ELSE ClaudeEndpoint

\* C16: generateResponse makes no HTTP call and returns success = false
\* with an error text when the provider is neither gemini nor claude or the
\* key of the requested provider is missing; it never calls the endpoint of
\* the other provider, and it makes at most one HTTP call.
NoCallWithoutProviderOrKey ==
    last.op = "generateResponse" =>
        /\ last.provider \notin {Gemini, Claude} \/ ~NonEmpty(KeyOf(last.provider)) =>
               /\ last.fetched = <<>>
               /\ last.value.success = FALSE
               /\ NonEmpty(last.value.error)
        /\ \A i \in 1..Len(last.fetched) : last.fetched[i] = EndpointOf(last.provider)
        /\ Len(last.fetched) <= 1

\* claude was asked for without a key while the key of gemini is stored
ClaudeAskedWithoutKey ==
    /\ last.op = "generateResponse"
    /\ last.provider = Claude
    /\ ~NonEmpty(props.CLAUDE_API_KEY)
    /\ NonEmpty(props.GEMINI_API_KEY)
    /\ last.outcome.kind = "resp" /\ last.outcome.code = 200
    /\ last.fetched = <<>>

\* C17: for a supported provider with a stored key, generateResponse
\* returns success = true exactly when the status is 200 and the text field
\* is not empty, and the content of a successful answer is a non-empty
\* string. The code tests the text before it trims it: a text of blanks is
\* answered with success = true and the empty content.
SuccessIffTextAndContentNonEmpty ==
    last.op = "generateResponse" /\ last.provider \in {Gemini, Claude}
        /\ NonEmpty(KeyOf(last.provider)) =>
        /\ last.value.success =
               (/\ last.outcome.kind = "resp"
                /\ last.outcome.code = 200
                /\ NonEmpty(last.outcome.text))
        /\ last.value.success => NonEmpty(last.value.content)

\* the first part alone: success = true exactly for status 200 with a text
SuccessIffText ==
    last.op = "generateResponse" /\ last.provider \in {Gemini, Claude}
        /\ NonEmpty(KeyOf(last.provider)) =>
        last.value.success =
            (/\ last.outcome.kind = "resp"
             /\ last.outcome.code = 200
             /\ NonEmpty(last.outcome.text))

\* a text with blanks around it was answered trimmed
TrimmedAnswer ==
    /\ last.op = "generateResponse"
    /\ last.value.success
    /\ last.outcome.text = <<" ", "o", "k", " ">>
    /\ last.value.content = <<"o", "k">>

----------------------------------------------------------------------------
(* Claims about MercadoLibreService *)

\* the stored token is usable: it is set and now is more than five minutes
\* before the stored expiry
StoredTokenFresh(p) ==
    /\ NonEmpty(p.ML_ACCESS_TOKEN)
    /\ p.ML_ACCESS_TOKEN_FECHA_EXPIRA # 0
    /\ now < p.ML_ACCESS_TOKEN_FECHA_EXPIRA - 5

\* the refresh of a call fails: credentials are missing, the fetch throws,
\* the status is not 200 or the answer has no access_token or no expires_in
RefreshFails(p, refresh) ==
    \/ ~NonEmpty(p.ML_CLIENT_ID) \/ ~NonEmpty(p.ML_CLIENT_SECRET)
    \/ ~NonEmpty(p.ML_REFRESH_TOKEN)
    \/ refresh.kind # "resp"
    \/ refresh.code # 200
    \/ ~NonEmpty(refresh.access_token)
    \/ refresh.expires_in = NaN

\* C18: getUserOrders and getOrderDetails call the orders API with the
\* stored token only when now < stored expiry - 5 minutes; otherwise one
\* refresh, and no more, comes before any call of the orders API, which
\* then carries the new token; when the refresh fails the answer is
\* success = false with the error of the missing token and the orders API
\* is not called.
OrdersCalledWithValidTokenOnly ==
    last.op \in {"getOrderDetails", "getUserOrders"} =>
        /\ last.orderCalls <= 1 /\ last.refreshCalls <= 1
        /\ StoredTokenFresh(last.stored) =>
               /\ last.refreshCalls = 0
               /\ last.orderCalls = 1
               /\ last.orderToken = last.stored.ML_ACCESS_TOKEN
        /\ ~StoredTokenFresh(last.stored) /\ ~RefreshFails(last.stored, last.refresh) =>
               /\ last.refreshCalls = 1
               /\ last.orderCalls = 1
               /\ last.orderToken = last.refresh.access_token
        /\ ~StoredTokenFresh(last.stored) /\ RefreshFails(last.stored, last.refresh) =>
               /\ last.orderCalls = 0
               /\ last.value.success = FALSE
               /\ last.value.error = <<"No valid access token available">>

\* a token four minutes before its expiry was refreshed, and the refresh
\* was refused
StaleTokenRefreshRefused ==
    /\ last.op = "getUserOrders"
    /\ last.stored.ML_ACCESS_TOKEN = <<"token0">>
    /\ last.stored.ML_ACCESS_TOKEN_FECHA_EXPIRA = now + 4
    /\ last.refreshCalls = 1
    /\ last.refresh.kind = "resp" /\ last.refresh.code = 400
    /\ last.orderCalls = 0

\* the stored access token, expiry and refresh token
StoredTokens(p) ==
    <<p.ML_ACCESS_TOKEN, p.ML_ACCESS_TOKEN_FECHA_EXPIRA, p.ML_REFRESH_TOKEN>>

\* what a successful refresh leaves in the store
TokensOf(p, refresh) ==
    <<refresh.access_token, now + refresh.expires_in,
      IF NonEmpty(refresh.refresh_token) THEN refresh.refresh_token
      ELSE p.ML_REFRESH_TOKEN>>

\* C24: after a successful refreshAccessToken the stored access token and
\* expiry are those of the refresh response and the stored refresh token is
\* the response's when it carries one and the previous one otherwise; after
\* a failed refresh the three are unchanged; and after every call that may
\* refresh the three are either all as before or all of the refresh, so
\* that no new access token stands beside an old expiry.
RefreshStoresAllOrNothing ==
    /\ last.op = "refreshAccessToken" =>
           /\ NonEmpty(last.token) <=> ~RefreshFails(last.stored, last.refresh)
           /\ NonEmpty(last.token) =>
                  /\ last.token = last.refresh.access_token
                  /\ StoredTokens(props) = TokensOf(last.stored, last.refresh)
           /\ ~NonEmpty(last.token) => StoredTokens(props) = StoredTokens(last.stored)
    /\ last.op \in {"refreshAccessToken", "getOrderDetails", "getUserOrders"} =>
           \/ StoredTokens(props) = StoredTokens(last.stored)
           \/ /\ last.refreshCalls = 1
              /\ StoredTokens(props) = TokensOf(last.stored, last.refresh)

\* a refresh answered without a refresh token: the new access token and
\* expiry are stored beside the previous refresh token
RefreshedWithoutRotation ==
    /\ last.op = "refreshAccessToken"
    /\ last.token = <<"token1">>
    /\ last.stored.ML_ACCESS_TOKEN = <<"token0">>
    /\ ~NonEmpty(last.refresh.refresh_token)
    /\ StoredTokens(props) = <<<<"token1">>, now + 360, <<"refresh0">>>>

----------------------------------------------------------------------------
(* Claims about ChatService *)

\* the group a message belongs to: the first of menu, order, product and
\* escalation one of whose keywords the lower-cased message contains
FirstGroup(message) ==
    LET lower == ToLowerCase(message)
    IN IF containsAny(lower, MenuKeywords) THEN "menu_request"
       ELSE IF containsAny(lower, orderKeywords) THEN "order_inquiry"
       ELSE IF containsAny(lower, productKeywords) THEN "product_inquiry"
       ELSE IF containsAny(lower, escalationKeywords) THEN "escalation"
       ELSE "general_ai"

\* C19: determineResponseStrategy returns, for every message, the strategy
\* of the first keyword group the message matches, in the order menu, order,
\* product, escalation, general_ai. For the order and the product group the
\* code calls this.extractOrderContext and this.extractProductContext,
\* which ChatService does not have: the call throws and no strategy is
\* returned.
StrategyIsFirstMatchingGroup ==
    last.op = "determineResponseStrategy" =>
        /\ ~last.strategy.raised
        /\ last.strategy.type = FirstGroup(last.message)

\* the part of C19 about the menu: a message with a menu keyword is a menu
\* request whatever else it contains, and the messages of the escalation
\* group and of no group are classified as claimed
MenuKeywordWins ==
    last.op = "determineResponseStrategy" =>
        /\ containsAny(ToLowerCase(last.message), MenuKeywords) =>
               last.strategy = [type |-> "menu_request", raised |-> FALSE]
        /\ FirstGroup(last.message) \in {"escalation", "general_ai"} =>
               last.strategy = [type |-> FirstGroup(last.message), raised |-> FALSE]

\* a message with an order keyword and the escalation keyword 'ayuda
\* directa', which contains the menu keyword 'ayuda', was classified
OrderAndMenuKeywords ==
    /\ last.op = "determineResponseStrategy"
    /\ containsOrderKeywords(ToLowerCase(last.message))
    /\ containsEscalationKeywords(ToLowerCase(last.message))
    /\ last.strategy.type = "menu_request"

\* the runs of at least twelve digits of a message: where they start
LongDigitRuns(message) ==
    {i \in 1..Len(message) :
        /\ IsDigit(message[i])
        /\ i = 1 \/ ~IsDigit(message[i - 1])
        /\ DigitRunEnd(message, i) - i + 1 >= 12}

\* the first run of at least twelve digits
FirstLongDigitRun(message) ==
    LET i == CHOOSE k \in LongDigitRuns(message) :
                 \A j \in LongDigitRuns(message) : k <= j
    IN SubSeq(message, i, DigitRunEnd(message, i))

\* C20: handleOrderInquiry uses the first run of at least twelve digits as
\* the order id and calls getOrderDetails once, answering order_info with
\* showMenu on its success; without such a run it makes no gateway call;
\* without an id and after a failed fetch it calls the AI once and returns
\* the answer in the message field. The code returns the object of
\* generateResponse as it is, which has a content field and no message
\* field, and it takes a run of digits only between word boundaries.
OrderInquiryAnswers ==
    last.op = "handleOrderInquiry" =>
        /\ LongDigitRuns(last.message) # {} =>
               /\ last.orderCalls = 1
               /\ last.order = [kind |-> "resp", code |-> 200] =>
                      /\ last.resp.type = <<"order_info">>
                      /\ last.resp.showMenu = TRUE
                      /\ last.resp.data.id = FirstLongDigitRun(last.message)
        /\ LongDigitRuns(last.message) = {} => last.orderCalls = 0
        /\ LongDigitRuns(last.message) = {}
             \/ last.order # [kind |-> "resp", code |-> 200] =>
               /\ last.aiCalls = 1
               /\ "message" \in DOMAIN last.resp
               /\ last.ai.kind = "resp" /\ last.ai.code = 200 /\ NonEmpty(last.ai.text) =>
                      last.resp.message = Trim(last.ai.text)

\* what the handler does: the id is the first run of twelve or more digits
\* between word boundaries, and the AI answer comes back in content
OrderInquiryAnswersInContent ==
    last.op = "handleOrderInquiry" =>
        /\ last.orderCalls = IF NonEmpty(extractOrderId(last.message)) THEN 1 ELSE 0
        /\ last.orderCalls = 1 /\ last.order = [kind |-> "resp", code |-> 200] =>
               /\ last.resp.type = <<"order_info">>
               /\ last.resp.showMenu = TRUE
               /\ last.resp.data.id = extractOrderId(last.message)
        /\ last.orderCalls = 0 \/ last.order # [kind |-> "resp", code |-> 200] =>
               /\ last.aiCalls = 1
               /\ "message" \notin DOMAIN last.resp
               /\ last.resp.success => last.resp.content = Trim(last.ai.text)

\* an order id was found and the fetch succeeded
OrderInfoAnswered ==
    /\ last.op = "handleOrderInquiry"
    /\ last.resp.success
    /\ last.resp.type = <<"order_info">>
    /\ last.resp.data.id = <<"1", "2", "3", "4", "5", "6", "7", "8", "9", "0", "1", "2">>
    /\ last.aiCalls = 0

----------------------------------------------------------------------------
(* Claims about the sessions *)

\* a processMessage call that returned from its try block
MessageAnswered == last.op = "processMessage" /\ last.strategy # "none"

\* the chat_message rows the last call appended
ChatMessageRows ==
    SelectSeq(SubSeq(logs, last.rows + 1, Len(logs)),
              LAMBDA row : row.type = "chat_message")

\* the session of the last call is stored with the message and the response,
\* rows chat_message rows were appended, the last rows of the log, and they
\* record the strategy
SessionStoredAndLogged(rows) ==
    /\ Field(getSessionContext(props.sessions, last.sessionId), "lastMessage")
           = last.message
    /\ "lastResponse" \in DOMAIN getSessionContext(props.sessions, last.sessionId)
    /\ getSessionContext(props.sessions, last.sessionId).lastResponse = last.resp
    /\ Len(ChatMessageRows) = rows
    /\ rows = 1 =>
           /\ logs[Len(logs)].type = "chat_message"
           /\ logs[Len(logs)].metadata.responseType = last.strategy

\* a call whose write of the session raises appends no chat_message row: the
\* session is written before the row
SessionWrittenBeforeLogged ==
    last.op = "processMessage" /\ ~last.env.sessionOk => Len(ChatMessageRows) = 0

\* C21: every processMessage call that completes without an internal
\* exception stores lastMessage and lastResponse in the session of the call
\* and then appends exactly one chat_message row that records the strategy;
\* the session is updated before the row is written. logInteraction swallows
\* a failing append, so with the log sink down no row is appended.
MessageStoredThenLoggedOnce ==
    /\ MessageAnswered => SessionStoredAndLogged(1)
    /\ SessionWrittenBeforeLogged

\* as the code behaves: one row when the append succeeds, none when it fails
MessageStoredThenLoggedWhenSinkWorks ==
    /\ MessageAnswered =>
           SessionStoredAndLogged(IF last.env.logOk /\ last.env.propsOk THEN 1 ELSE 0)
    /\ SessionWrittenBeforeLogged

\* a chat message answered by the default reply after the AI failed, in a
\* session that was stored with an older message: stored and logged once
DefaultReplyStoredAndLogged ==
    /\ MessageAnswered
    /\ last.strategy = "general_ai"
    /\ last.env.ai = AiError
    /\ last.resp.type = <<"default">>
    /\ Field(getSessionContext(last.sessions, last.sessionId), "lastMessage") = MsgHello
    /\ last.message = TextWithCard
    /\ SessionStoredAndLogged(1)

----------------------------------------------------------------------------
(* Claims about the selections *)

\* two successive processSelection calls with the same arguments
SelectionRepeated ==
    /\ last.op = "processSelection"
    /\ last.prev.op = "processSelection"
    /\ last.prev.selection = last.selection
    /\ last.prev.sessionId = last.sessionId

\* the two responses agree in type, message and showMenu
SameAnswer ==
    /\ Field(last.resp, "type") = Field(last.prev.resp, "type")
    /\ last.resp.message = last.prev.resp.message
    /\ last.resp.showMenu = last.prev.resp.showMenu

\* the response type of the active option a selection matches, none when it
\* matches no option
ResponseTypeOf(selection) ==
    LET menuConfig == getMenuConfig(menu, TRUE)
        hits == {i \in 1..Len(menuConfig) :
                    /\ NumberToString(menuConfig[i].number) = selection
                    /\ menuConfig[i].active}
    IN IF hits = {} THEN <<"none">>
       ELSE menuConfig[CHOOSE i \in hits : \A j \in hits : i <= j].responseType

\* C22: two successive processSelection calls with the same arguments against
\* unchanged Menu_Config and Settings tables return the same type, message and
\* showMenu, for static, ai and escalate options. The reply to an ai option
\* is what the provider answers, and the reply to an escalate option depends
\* on the clock.
ProcessSelectionIdempotent == SelectionRepeated => SameAnswer

\* as the code behaves: the same answer for an ai option when the provider
\* gives the same outcome, and for an escalate option when both calls fall
\* within or both outside the business hours
ProcessSelectionRepeatable ==
    SelectionRepeated =>
        \/ /\ ResponseTypeOf(last.selection) = AI
           /\ last.env.ai # last.prev.env.ai
        \/ /\ ResponseTypeOf(last.selection) = ESCALATE
           /\ isWithinBusinessHours(last.at, getDefaultBusinessHours)
                  # isWithinBusinessHours(last.prev.at, getDefaultBusinessHours)
        \/ SameAnswer

\* the escalate option selected twice within the business hours, the ai
\* option twice with an answering provider
EscalationSelectedTwice ==
    /\ SelectionRepeated
    /\ last.selection = <<"4">>
    /\ last.at = last.prev.at
    /\ last.resp.type = <<"escalation">>
    /\ last.resp.businessHours
    /\ SameAnswer

----------------------------------------------------------------------------
(* Claims about the web entry points *)

\* C23: every response of doGet and doPost, on success paths and on error
\* paths, carries the three Access-Control headers. doGet builds its outputs
\* without addCorsHeaders, and doPost hands every request that is not a JSON
\* post to doGet.
EveryResponseCarriesCors ==
    last.op \in {"doGet", "doPost"} => CorsHeaders \subseteq last.output.headers

\* what the code does: the headers are on the answers of doPost to a JSON post
\* and on its own error answer, and on no other
CorsOnJsonPostsOnly ==
    last.op \in {"doGet", "doPost"} =>
        LET own == /\ last.op = "doPost"
                   /\ \/ last.e = JsNull
                      \/ /\ "postData" \in DOMAIN last.e
                         /\ last.e.postData.type = "application/json"
        IN last.output.headers = IF own THEN CorsHeaders ELSE {}

----------------------------------------------------------------------------
(* Claims about the menu table *)

\* the rows of the Menu_Config sheet whose number and title cells are filled
RowsWithNumberAndTitle ==
    SelectSeq(menu, LAMBDA row : /\ row.number # Undef
                                 /\ row.number # Str(<<>>)
                                 /\ NonEmpty(row.title))

\* the numbers of a list of rows or options
NumbersOf(rows) == [i \in 1..Len(rows) |-> rows[i].number]

\* C25: getMenuConfig keeps exactly the rows in which number and title are
\* present; the exit row, with number 0 and a title, is kept, is among the
\* options of getMenu and is what processSelection('0') selects. The filter
\* is item.number && item.title, and the number 0 is falsy.
ExitRowKeptAndSelectable ==
    /\ last.op = "handleChatbotRequest" /\ last.env.menuOk =>
           NumbersOf(getMenuConfig(menu, TRUE)) = NumbersOf(RowsWithNumberAndTitle)
    /\ /\ last.op = "handleChatbotRequest"
       /\ last.env = AllUp
       /\ last.dispatched = "getMenu"
       => \E i \in 1..Len(last.resp.options) : last.resp.options[i].number = Num(0)
    /\ /\ last.op = "handleChatbotRequest"
       /\ last.env = AllUp
       /\ last.dispatched = "processSelection"
       /\ Field(last.params, "userInput") = <<"0">>
       => /\ last.resp.success
          /\ last.resp.message = <<"Gracias por contactarnos">>

\* what the code does: a row is kept when its number is truthy and its title
\* is filled, and the selection 0 matches no option
ExitRowDropped ==
    /\ \A i \in 1..Len(getMenuConfig(menu, TRUE)) :
           getMenuConfig(menu, TRUE)[i].number # Num(0)
    /\ /\ last.op = "handleChatbotRequest"
       /\ last.env = AllUp
       /\ last.dispatched = "processSelection"
       /\ Field(last.params, "userInput") = <<"0">>
       => /\ ~last.resp.success
          /\ last.resp.message
                 = <<"Seleccion invalida. Por favor elige una opcion del menu.">>

----------------------------------------------------------------------------
(* Claims about the growth of the log *)

\* C26: across getMenu, processSelection, processMessage, the gateways they
\* call and the log writers, cleanupOldLogs apart, Chat_Logs only grows: the
\* rows present before an operation are a prefix of the rows after it.
LogOnlyGrows ==
    [][/\ Len(logs') >= Len(logs)
       /\ SubSeq(logs', 1, Len(logs)) = logs]_vars

\* an escalation by chat message appended its rows below the rows of earlier
\* runs
RowsAppendedBelowEarlierRows ==
    /\ last.op = "handleChatbotRequest"
    /\ last.dispatched = "processMessage"
    /\ Len(logs) >= Len(EarlierRows) + 2
    /\ SubSeq(logs, 1, Len(EarlierRows)) = EarlierRows
    /\ logs[Len(logs) - 1].type = "escalation"
    /\ logs[Len(logs)].type = "chat_message"

----------------------------------------------------------------------------
(* Claims about a failing log sink *)

\* C27: a failure of the log sink never changes what the caller receives:
\* getMenu, processSelection and processMessage return, when every append
\* fails, the response they return when the appends succeed, and no logging
\* function raises to its caller (a raise would end the call in its catch
\* block, with the answer of the catch block).
SinkFailureKeepsResponse ==
    last.op \in {"getMenu", "processSelection", "processMessage"} =>
        /\ last.answers[FALSE] = last.answers[TRUE]
        /\ ~last.logOk => Len(logs) = last.rows

\* an escalation by chat message with the sink down: answered as with the
\* sink up, and nothing logged
EscalationAnsweredWithSinkDown ==
    /\ last.op = "processMessage"
    /\ ~last.logOk
    /\ last.input = MsgAgent
    /\ last.answers[FALSE].type = <<"escalation">>
    /\ last.answers[FALSE] = last.answers[TRUE]
    /\ Len(logs) = last.rows

----------------------------------------------------------------------------
(* Claims about the session column *)

\* C28: every row appended to Chat_Logs has a non-empty string in its session
\* id column, 'anonymous' or 'system' standing in for a missing sessionId,
\* for rows of every type including escalation rows. logEscalation writes
\* the sessionId it is given, without a default.
EveryRowHasSession ==
    \A i \in 1..Len(logs) : NonEmpty(logs[i].session)

\* what the code does: the rows other than escalation rows have a session
\* id, and an escalation row has the sessionId of the request or none
RowsOtherThanEscalationHaveSession ==
    \A i \in 1..Len(logs) :
        logs[i].type # "escalation" => NonEmpty(logs[i].session)

----------------------------------------------------------------------------
(* Claims about the initialization *)

\* the sheets initializeSheets opens are reachable
SheetsReachable(env) == env.menuOk /\ env.logOk /\ env.settingsOk

\* the answer of the catch block of handleChatbotRequest
IsErrorEnvelope(resp) ==
    /\ resp.success = FALSE
    /\ resp.error = <<"Lo siento, ocurrio un error. Por favor intenta nuevamente.">>

\* C29: SYSTEM_INITIALIZED is set only after initializeSheets and
\* initializeConfig returned without raising; once it is set no later
\* request runs initializeSystem again (a request is dispatched whatever the
\* state of the sheets); when the initialization raises the flag stays unset,
\* the request gets the error envelope and its action is not dispatched; and
\* the next request attempts the initialization again.
InitializedOnceAndOnlyOnSuccess ==
    last.op = "handleChatbotRequest" /\ last.env.propsOk =>
        /\ last.initialized =>
               /\ props.SYSTEM_INITIALIZED
               /\ last.params # JsNull => last.dispatched # "none"
        /\ ~last.initialized /\ SheetsReachable(last.env) =>
               /\ props.SYSTEM_INITIALIZED
               /\ last.params # JsNull => last.dispatched # "none"
        /\ ~last.initialized /\ ~SheetsReachable(last.env) =>
               /\ ~props.SYSTEM_INITIALIZED
               /\ last.dispatched = "none"
               /\ IsErrorEnvelope(last.resp)
               /\ \A i \in (last.rows + 1)..Len(logs) : logs[i].type = "error"

\* a first request whose initialization raised, and the next request, which
\* initialized the system and showed the menu
InitializedAtSecondRequest ==
    /\ last.op = "handleChatbotRequest"
    /\ last.prev.op = "handleChatbotRequest"
    /\ ~last.prev.initialized
    /\ ~SheetsReachable(last.prev.env)
    /\ IsErrorEnvelope(last.prev.resp)
    /\ ~last.initialized
    /\ props.SYSTEM_INITIALIZED
    /\ last.dispatched = "getMenu"
    /\ last.resp.success

----------------------------------------------------------------------------
(* Claims about the frame of processMessage *)

\* the keys of the stored session blobs
SessionKeys(sessions) == {sessions[i].key : i \in 1..Len(sessions)}

\* the keys of a stored context
ContextKeys(ctx) == DOMAIN ctx \ {"emptyObject"}

\* C30: processMessage(m, s) changes no session blob other than the one keyed
\* by s: every other stored context is the same after the call as before, and
\* within the blob of s every key other than lastMessage, lastResponse and
\* timestamp keeps its value.
ProcessMessageKeepsOtherSessions ==
    last.op = "processMessage" =>
        /\ SessionKeys(last.sessions) \subseteq SessionKeys(props.sessions)
        /\ SessionKeys(props.sessions)
               \subseteq SessionKeys(last.sessions) \cup {SessionKey(last.sessionId)}
        /\ \A key \in SessionKeys(last.sessions) \ {SessionKey(last.sessionId)} :
               getSessionContext(props.sessions, key)
                   = getSessionContext(last.sessions, key)
        /\ \A k \in ContextKeys(getSessionContext(last.sessions, last.sessionId))
                       \ {"lastMessage", "lastResponse", "timestamp"} :
               /\ k \in DOMAIN getSessionContext(props.sessions, last.sessionId)
               /\ getSessionContext(props.sessions, last.sessionId)[k]
                      = getSessionContext(last.sessions, last.sessionId)[k]

\* a message of session s1 answered while the sessions s2 and s1 were stored:
\* the blob of s2 is as it was and the blob of s1 kept its step
OtherSessionKept ==
    /\ MessageAnswered
    /\ last.sessionId = S1
    /\ last.sessions = <<Blob(S2, [cart |-> <<"y">>]), Blob(S1, [step |-> 2])>>
    /\ getSessionContext(props.sessions, S2) = [cart |-> <<"y">>]
    /\ getSessionContext(props.sessions, S1).step = 2
    /\ getSessionContext(props.sessions, S1).lastMessage = last.message

====
